---- MODULE Spec2Model ----
(***************************************************************************)
(* SoulSync backend: the mood detection service (services/moodDetection)   *)
(* and the journal routes that call it.                                    *)
(*                                                                         *)
(* JavaScript strings are TLA+ strings; the string primitives the service  *)
(* uses (toLowerCase, includes, replace, split, trim) are defined below    *)
(* character by character.  Numbers that are fractions in the code are     *)
(* kept exact: a confidence is a number of hundredths (0.95 is 95) and a   *)
(* sentiment score is a fraction [num, den].                               *)
(***************************************************************************)
EXTENDS Integers, Sequences, FiniteSets, TLC

VARIABLES
    pc,        \* "idle": no call in progress; "done": the last call returned
    call,      \* the last call made to the service: [fn, ...arguments]
    result,    \* what that call returned
    entries,   \* JournalEntry collection: the documents, in insertion order
    moods,     \* Mood collection: the documents, in insertion order
    request,   \* the last request a route handled
    response,  \* the response that route sent
    user,      \* req.user: the User document of the authenticated user
    today,     \* the calendar day new Date() falls on, as a day number
    tables,    \* the module-level tables of the service
    seen,      \* history: the detectMood calls that returned, with their results
    account,   \* the User document of the one email address, as the database holds it
    clock,     \* Date.now(), in minutes
    inflight,  \* the requests handled step by step: where each handler stands
    issued,    \* history: the tokens generated, the i-th being token i: the time
               \* of each, and the requests that succeeded with it
    midnights  \* the server's local midnights of the days 1..today, in hours

vars == <<pc, call, result, entries, moods, request, response, user, today,
          tables, seen, account, clock, inflight, issued, midnights>>

authVars == <<account, clock, inflight, issued>>

svcVars == <<pc, call, result, tables, seen>>
dbVars == <<entries, moods, request, response, user, today, midnights>>

(* JavaScript values whose type the code inspects (the text and the manual    *)
(* mood of a request) carry their type: typeof v is v.type                   *)
Str(s) == [type |-> "string", val |-> s]
Num(n) == [type |-> "number", val |-> n]     \* n: the number's decimal text
Null == [type |-> "object", val |-> "null"]
Undefined == [type |-> "undefined", val |-> "undefined"]

\* ToBoolean: what !v, v || w and v ? a : b test
Truthy(v) ==
    CASE v.type = "string" -> v.val # ""
      [] v.type = "number" -> v.val \notin {"0", "NaN"}
      [] v.type = "object" -> v.val # "null"
      [] OTHER -> FALSE

\* v || w
Or(v, w) == IF Truthy(v) THEN v ELSE w

\* an array, and an object with the properties of the record props
Arr(items) == [type |-> "object", val |-> "array", items |-> items]
Obj(props) == [type |-> "object", val |-> "object", props |-> props]

\* v?.name: undefined when v is null or undefined, and when v has no such
\* property (a string or a number has none of the names read here)
Prop(v, name) ==
    IF v.type = "object" /\ v.val = "object" /\ name \in DOMAIN v.props
    THEN v.props[name]
    ELSE Undefined

-----------------------------------------------------------------------------
(* Characters and the String primitives *)

LowerChars == {"a","b","c","d","e","f","g","h","i","j","k","l","m",
               "n","o","p","q","r","s","t","u","v","w","x","y","z"}
UpperChars == {"A","B","C","D","E","F","G","H","I","J","K","L","M",
               "N","O","P","Q","R","S","T","U","V","W","X","Y","Z"}
DigitChars == {"0","1","2","3","4","5","6","7","8","9"}

\* \w of a JavaScript regular expression
WordChars == LowerChars \cup UpperChars \cup DigitChars \cup {"_"}
\* \s of a JavaScript regular expression (the members that occur in the inputs)
SpaceChars == {" ", "\t", "\n", "\r"}

CharAt(s, i) == SubSeq(s, i, i)

LowerOf ==
    ("A" :> "a") @@ ("B" :> "b") @@ ("C" :> "c") @@ ("D" :> "d") @@ ("E" :> "e") @@
    ("F" :> "f") @@ ("G" :> "g") @@ ("H" :> "h") @@ ("I" :> "i") @@ ("J" :> "j") @@
    ("K" :> "k") @@ ("L" :> "l") @@ ("M" :> "m") @@ ("N" :> "n") @@ ("O" :> "o") @@
    ("P" :> "p") @@ ("Q" :> "q") @@ ("R" :> "r") @@ ("S" :> "s") @@ ("T" :> "t") @@
    ("U" :> "u") @@ ("V" :> "v") @@ ("W" :> "w") @@ ("X" :> "x") @@ ("Y" :> "y") @@
    ("Z" :> "z")

RECURSIVE LowerFrom(_, _)
LowerFrom(s, i) ==
    IF i > Len(s) THEN ""
    ELSE LET c == CharAt(s, i)
         IN  (IF c \in UpperChars THEN LowerOf[c] ELSE c) \o LowerFrom(s, i + 1)

\* String.prototype.toLowerCase
toLowerCase(s) == LowerFrom(s, 1)

\* String.prototype.includes
includes(s, p) ==
    \E i \in 0..(Len(s) - Len(p)) : SubSeq(s, i + 1, i + Len(p)) = p

\* Array.prototype.includes, on a sequence
arrayIncludes(arr, x) == \E i \in 1..Len(arr) : arr[i] = x

\* the index of the first ">" at or after j; 0 when there is none
NextGt(s, j) ==
    IF \E k \in j..Len(s) : CharAt(s, k) = ">"
    THEN CHOOSE k \in j..Len(s) :
            /\ CharAt(s, k) = ">"
            /\ \A l \in j..(k - 1) : CharAt(s, l) # ">"
    ELSE 0

\* .replace(/<[^>]*>/g, ''): every "<" that has a ">" after it is removed
\* together with everything up to and including the first such ">"
RECURSIVE StripTagsFrom(_, _)
StripTagsFrom(s, i) ==
    IF i > Len(s) THEN ""
    ELSE IF CharAt(s, i) = "<" /\ NextGt(s, i + 1) # 0
         THEN StripTagsFrom(s, NextGt(s, i + 1) + 1)
         ELSE CharAt(s, i) \o StripTagsFrom(s, i + 1)

\* .replace(/[^\w\s]/g, ' ')
RECURSIVE ReplacePunctFrom(_, _)
ReplacePunctFrom(s, i) ==
    IF i > Len(s) THEN ""
    ELSE LET c == CharAt(s, i)
         IN  (IF c \in WordChars \cup SpaceChars THEN c ELSE " ")
                \o ReplacePunctFrom(s, i + 1)

\* the index of the last character of the whitespace run that starts at i
RECURSIVE EndOfRun(_, _)
EndOfRun(s, i) ==
    IF i < Len(s) /\ CharAt(s, i + 1) \in SpaceChars THEN EndOfRun(s, i + 1) ELSE i

\* .replace(/\s+/g, ' ')
RECURSIVE CollapseFrom(_, _)
CollapseFrom(s, i) ==
    IF i > Len(s) THEN ""
    ELSE IF CharAt(s, i) \in SpaceChars
         THEN " " \o CollapseFrom(s, EndOfRun(s, i) + 1)
         ELSE CharAt(s, i) \o CollapseFrom(s, i + 1)

\* String.prototype.trim
trim(s) ==
    IF \A i \in 1..Len(s) : CharAt(s, i) \in SpaceChars THEN ""
    ELSE LET first == CHOOSE i \in 1..Len(s) :
                        /\ CharAt(s, i) \notin SpaceChars
                        /\ \A j \in 1..(i - 1) : CharAt(s, j) \in SpaceChars
             last  == CHOOSE i \in 1..Len(s) :
                        /\ CharAt(s, i) \notin SpaceChars
                        /\ \A j \in (i + 1)..Len(s) : CharAt(s, j) \in SpaceChars
         IN  SubSeq(s, first, last)

\* .split(/\s+/): the pieces between whitespace runs, empty pieces included
RECURSIVE SplitFrom(_, _, _)
SplitFrom(s, i, cur) ==
    IF i > Len(s) THEN <<cur>>
    ELSE IF CharAt(s, i) \in SpaceChars
         THEN <<cur>> \o SplitFrom(s, EndOfRun(s, i) + 1, "")
         ELSE SplitFrom(s, i + 1, cur \o CharAt(s, i))

splitWhitespace(s) == SplitFrom(s, 1, "")

\* MoodDetectionService.cleanText
cleanText(text) ==
    trim(CollapseFrom(ReplacePunctFrom(StripTagsFrom(text, 1), 1), 1))

-----------------------------------------------------------------------------
(* The tables of the service *)

\* simpleSentiment.analyze: positiveWords
positiveWords ==
    {"good", "great", "happy", "love", "wonderful", "fantastic", "awesome", "joy",
     "blessed", "grateful", "peaceful", "calm", "content", "satisfied", "proud",
     "accomplished", "successful", "optimistic", "cheerful", "delighted", "perfect",
     "brilliant", "excellent", "beautiful", "lovely", "nice", "pleasant", "enjoyable"}

\* simpleSentiment.analyze: negativeWords
negativeWords ==
    {"bad", "sad", "hate", "terrible", "awful", "horrible", "angry", "frustrated",
     "depressed", "upset", "worried", "anxious", "stressed", "hopeless", "worthless",
     "lonely", "isolated", "disappointed", "cry", "crying", "hurt", "pain",
     "miserable", "devastated", "heartbroken", "furious", "mad", "irritated",
     "annoyed", "disgusted", "bitter", "resentful"}

\* criticalPhrases with a phrase that selfHarmPatterns does not list
criticalPhrases_Unlisted ==
    <<"want to die", "i want to die", "kill myself", "hurt myself", "end it all",
      "suicide", "self harm", "no point", "worthless", "hopeless", "better off dead",
      "bad">>

\* simpleSentiment.analyze: criticalPhrases
criticalPhrases ==
    <<"want to die", "i want to die", "kill myself", "hurt myself", "end it all",
      "suicide", "self harm", "no point", "worthless", "hopeless", "better off dead">>

selfHarmPatterns ==
    <<"hurt myself", "kill myself", "end it all", "not worth living",
      "want to die", "i want to die", "suicide", "self harm", "cut myself",
      "harm myself", "end my life", "take my life", "give up", "no point",
      "hopeless", "worthless", "better off dead", "burden",
      "everyone would be better", "no one cares", "no one would miss me",
      "disappear", "fade away", "should die", "wish i was dead", "rather be dead",
      "life is meaningless", "cant go on", "can't go on", "nothing matters",
      "pointless", "useless", "hate myself", "hate my life", "tired of living",
      "done with life">>

\* the Mood enumeration of the schemas
MoodEnum ==
    {"happy", "sad", "angry", "anxious", "excited", "calm", "grateful", "lonely",
     "confused", "neutral"}

\* the keys of the scores object of calculateMoodScores, in insertion order
ScoreKeys ==
    <<"happy", "sad", "angry", "anxious", "excited", "calm", "grateful", "lonely",
      "confused", "neutral">>

\* the if-cascade of calculateMoodScores: the category of each if, and the phrases
\* its condition tests, in the order of the ifs
Cascade ==
    << [mood |-> "excited",
        markers |-> {"excited", "thrilled", "pumped", "can't wait", "hyped", "stoked"}],
       [mood |-> "sad",
        markers |-> {"sad", "crying", "cry", "depressed", "down", "blue",
                     "heartbroken", "devastated", "miserable", "feel terrible",
                     "feel awful", "hopeless"}],
       [mood |-> "angry",
        markers |-> {"angry", "mad", "furious", "frustrated", "pissed", "hate",
                     "irritated", "annoyed", "rage", "livid", "outraged"}],
       [mood |-> "anxious",
        markers |-> {"anxious", "worried", "nervous", "stressed", "panic",
                     "overwhelmed", "fear", "scared", "afraid", "terrified", "uneasy"}],
       [mood |-> "confused",
        markers |-> {"confused", "don't know", "unsure", "unclear", "lost", "puzzled",
                     "mixed up", "uncertain", "bewildered"}],
       [mood |-> "lonely",
        markers |-> {"lonely", "alone", "isolated", "no one cares", "by myself",
                     "abandoned", "left out", "disconnected"}],
       [mood |-> "happy",
        markers |-> {"happy", "joy", "cheerful", "delighted", "good day", "feel good",
                     "wonderful day", "great day", "amazing", "fantastic", "awesome",
                     "brilliant"}],
       [mood |-> "grateful",
        markers |-> {"grateful", "thankful", "blessed", "appreciate", "thank you",
                     "gratitude"}],
       [mood |-> "calm",
        markers |-> {"calm", "peaceful", "relaxed", "serene", "tranquil", "zen",
                     "meditation", "mindful"}] >>

\* moodPatterns: the keywords of each mood, in the order of the object's keys
moodPatterns ==
    << [mood |-> "happy", keywords |->
          <<"happy", "joy", "delighted", "cheerful", "ecstatic", "amazing",
            "wonderful", "fantastic", "great", "awesome", "brilliant", "love",
            "adore", "enjoy", "fun", "laugh", "smile", "celebrate", "success",
            "achievement", "accomplish", "proud", "grateful", "blessed">>],
       [mood |-> "sad", keywords |->
          <<"sad", "depressed", "down", "blue", "melancholy", "gloomy", "miserable",
            "cry", "tears", "hurt", "pain", "loss", "grief", "sorrow", "lonely",
            "disappointed", "let down", "heartbroken", "devastated", "hopeless",
            "empty", "numb", "broken", "defeated", "overwhelmed">>],
       [mood |-> "angry", keywords |->
          <<"angry", "mad", "furious", "rage", "irritated", "annoyed", "frustrated",
            "pissed", "livid", "outraged", "enraged", "hate", "disgusted", "repulsed",
            "fuming", "seething", "infuriated", "aggravated", "bothered", "upset",
            "displeased", "resentful", "bitter", "hostile", "aggressive">>],
       [mood |-> "anxious", keywords |->
          <<"anxious", "worried", "nervous", "stressed", "tense", "uneasy",
            "restless", "panic", "fear", "scared", "afraid", "terrified",
            "overwhelmed", "pressure", "deadline", "exam", "interview",
            "presentation", "uncertain", "doubt", "apprehensive", "jittery",
            "on edge", "frazzled", "burned out">>],
       [mood |-> "excited", keywords |->
          <<"excited", "thrilled", "pumped", "hyped", "energized", "enthusiastic",
            "eager", "anticipating", "looking forward", "can't wait", "stoked",
            "buzzing", "fired up", "motivated", "inspired", "passionate", "zealous",
            "vibrant", "dynamic", "lively", "animated", "spirited">>],
       [mood |-> "calm", keywords |->
          <<"calm", "peaceful", "serene", "tranquil", "relaxed", "chill", "zen",
            "meditation", "mindful", "centered", "balanced", "grounded", "stable",
            "content", "satisfied", "at ease", "comfortable", "cozy", "warm",
            "gentle", "soft", "quiet", "still", "harmonious">>],
       [mood |-> "grateful", keywords |->
          <<"grateful", "thankful", "appreciate", "blessed", "fortunate", "lucky",
            "thank you", "gratitude", "appreciation", "acknowledge", "recognize",
            "value", "treasure", "cherish", "honor", "respect", "admire",
            "inspired by", "moved by", "touched", "humbled", "privileged">>],
       [mood |-> "lonely", keywords |->
          <<"lonely", "alone", "isolated", "disconnected", "separated", "abandoned",
            "left out", "excluded", "rejected", "unwanted", "unloved", "ignored",
            "forgotten", "distant", "remote", "solitary", "single", "by myself",
            "no one", "nobody", "empty", "void", "hollow">>],
       [mood |-> "confused", keywords |->
          <<"confused", "lost", "uncertain", "unclear", "puzzled", "bewildered",
            "perplexed", "disoriented", "mixed up", "torn", "conflicted", "dilemma",
            "doubt", "question", "wonder", "unsure", "hesitant", "indecisive",
            "ambiguous", "vague", "unclear", "muddled", "chaotic">>] >>

helplineInfo ==
    ("US" :> [number |-> "988", text |-> "Text HOME to 741741",
              website |-> "https://suicidepreventionlifeline.org",
              name |-> "National Suicide Prevention Lifeline"]) @@
    ("UK" :> [number |-> "116 123", text |-> "Text SHOUT to 85258",
              website |-> "https://www.samaritans.org", name |-> "Samaritans"]) @@
    ("CA" :> [number |-> "1-833-456-4566", text |-> "Text 45645",
              website |-> "https://suicideprevention.ca",
              name |-> "Crisis Services Canada"]) @@
    ("AU" :> [number |-> "13 11 14", text |-> "Text 0477 13 11 14",
              website |-> "https://www.lifeline.org.au",
              name |-> "Lifeline Australia"]) @@
    ("IN" :> [number |-> "91-22-27546669", text |-> "Text 9152987821",
              website |-> "https://www.aasra.info", name |-> "AASRA"])

-----------------------------------------------------------------------------
(* Fractions *)

Frac(n, d) == [num |-> n, den |-> d]

\* FracGT with >= for >
FracGT_OrEqual(a, hundredths) == a.num * 100 >= hundredths * a.den

\* a > n/100 and a < n/100 for a fraction a with a positive denominator
FracGT(a, hundredths) == a.num * 100 > hundredths * a.den
FracLT(a, hundredths) == a.num * 100 < hundredths * a.den

SentimentCutoff == 15      \* 0.15, in hundredths

-----------------------------------------------------------------------------
(* simpleSentiment *)

\* SumScores with a negative word weighing 1, as a positive word does
RECURSIVE SumScores_NegativeWeightOne(_, _)
SumScores_NegativeWeightOne(words, i) ==
    IF i > Len(words) THEN 0
    ELSE (IF words[i] \in positiveWords THEN 1
          ELSE IF words[i] \in negativeWords THEN -1
          ELSE 0) + SumScores_NegativeWeightOne(words, i + 1)

\* the words.forEach of analyze: the score of the words from the i-th on
RECURSIVE SumScores(_, _)
SumScores(words, i) ==
    IF i > Len(words) THEN 0
    ELSE (IF words[i] \in positiveWords THEN 1
          ELSE IF words[i] \in negativeWords THEN -2
          ELSE 0) + SumScores(words, i + 1)

\* simpleSentiment.analyze
analyze(text) ==
    LET lowerText == toLowerCase(text)
        words == splitWhitespace(lowerText)
        score == SumScores(words, 1)
    IN  IF \E i \in 1..Len(criticalPhrases) : includes(lowerText, criticalPhrases[i])
        THEN [score |-> Frac(-10, 1), totalWords |-> Len(words), crisisDetected |-> TRUE]
        ELSE [score |-> IF Len(words) > 0 THEN Frac(score, Len(words)) ELSE Frac(0, 1),
              totalWords |-> Len(words), crisisDetected |-> FALSE]

-----------------------------------------------------------------------------
(* MoodDetectionService *)

\* MoodDetectionService.detectSelfHarm
detectSelfHarm(text) ==
    LET lowerText == toLowerCase(text)
    IN  \E i \in 1..Len(selfHarmPatterns) : includes(lowerText, selfHarmPatterns[i])

\* MoodDetectionService.getSelfHarmKeywords
getSelfHarmKeywords(text) ==
    LET lowerText == toLowerCase(text)
    IN  SelectSeq(selfHarmPatterns, LAMBDA p : includes(lowerText, p))

\* whether s ends with suffix
EndsWith(s, suffix) ==
    Len(s) >= Len(suffix) /\ SubSeq(s, Len(s) - Len(suffix) + 1, Len(s)) = suffix

DropLast(s, n) == SubSeq(s, 1, Len(s) - n)

\* this.stemmer.stem: word.toLowerCase().replace(/ing$|ed$|s$/, '')
stem(word) ==
    LET w == toLowerCase(word)
    IN  IF EndsWith(w, "ing") THEN DropLast(w, 3)
        ELSE IF EndsWith(w, "ed") THEN DropLast(w, 2)
        ELSE IF EndsWith(w, "s") THEN DropLast(w, 1)
        ELSE w

\* this.tokenizer.tokenize: text.split(/\s+/).filter(token => token.length > 0)
tokenize(text) == SelectSeq(splitWhitespace(text), LAMBDA token : Len(token) > 0)

\* every keyword of every mood, in the order the nested forEach visits them
RECURSIVE AllKeywordsFrom(_)
AllKeywordsFrom(i) ==
    IF i > Len(moodPatterns) THEN <<>>
    ELSE moodPatterns[i].keywords \o AllKeywordsFrom(i + 1)

AllKeywords == AllKeywordsFrom(1)

\* this.stemmer.stem(keyword) of each of them
StemmedKeywords == [i \in 1..Len(AllKeywords) |-> stem(AllKeywords[i])]

\* [...new Set(arr)]: the first occurrence of each element, in order
Dedupe(arr) ==
    LET indexed == [i \in 1..Len(arr) |-> <<i, arr[i]>>]
        firsts == SelectSeq(indexed, LAMBDA e : \A j \in 1..(e[1] - 1) : arr[j] # e[2])
    IN  [k \in 1..Len(firsts) |-> firsts[k][2]]

\* MoodDetectionService.getDetectedKeywords
getDetectedKeywords(tokens) ==
    LET indices == [i \in 1..Len(AllKeywords) |-> i]
        matches(i) ==
            \E t \in 1..Len(tokens) :
                \/ includes(tokens[t], StemmedKeywords[i])
                \/ includes(StemmedKeywords[i], tokens[t])
        detected == SelectSeq(indices, matches)
    IN  Dedupe([k \in 1..Len(detected) |-> AllKeywords[detected[k]]])

\* ScoresWith without the initial zeros: only the key that is set
ScoresWith_OnlySetKey(k, v) == << <<k, v>> >>

\* the scores object with every key 0 except key k, which holds v
ScoresWith(k, v) ==
    [i \in 1..Len(ScoreKeys) |-> <<ScoreKeys[i], IF ScoreKeys[i] = k THEN v ELSE 0>>]

MarkerScore == 10      \* the score of the category whose if matched
FallbackScore == 5     \* the score the sentiment fallback gives

\* whether the condition of the i-th if of the cascade holds of lowerText
CascadeHit(lowerText, i) == \E m \in Cascade[i].markers : includes(lowerText, m)

\* the ifs of the cascade whose condition holds of lowerText
CascadeHits(lowerText) == {i \in 1..Len(Cascade) : CascadeHit(lowerText, i)}

\* FirstHit without the early returns: the last if that holds decides
FirstHit_NoEarlyReturn(hits) == CHOOSE i \in hits : \A j \in hits : i >= j

\* the if that returns: each if returns at once, so the first that holds
FirstHit(hits) == CHOOSE i \in hits : \A j \in hits : i <= j

\* MoodDetectionService.calculateMoodScores: the entries of the scores object
calculateMoodScores(text, sentimentScore) ==
    LET lowerText == toLowerCase(text)
        hits == CascadeHits(lowerText)
    IN  IF hits # {}
        THEN ScoresWith(Cascade[FirstHit(hits)].mood, MarkerScore)
        ELSE IF FracGT(sentimentScore, SentimentCutoff)
             THEN ScoresWith("happy", FallbackScore)
        ELSE IF FracLT(sentimentScore, -SentimentCutoff)
             THEN ScoresWith("sad", FallbackScore)
        ELSE ScoresWith("neutral", FallbackScore)

\* MaxEntry with score >= maxScore: the last of the tied entries wins
RECURSIVE MaxEntry_LastTieWins(_, _, _)
MaxEntry_LastTieWins(moodScores, i, best) ==
    IF i > Len(moodScores) THEN best
    ELSE MaxEntry_LastTieWins(moodScores, i + 1,
            IF moodScores[i][2] >= best.maxScore
            THEN [maxScore |-> moodScores[i][2], detectedMood |-> moodScores[i][1]]
            ELSE best)

\* the forEach of getHighestScoringMood over Object.entries(moodScores)
RECURSIVE MaxEntry(_, _, _)
MaxEntry(moodScores, i, best) ==
    IF i > Len(moodScores) THEN best
    ELSE MaxEntry(moodScores, i + 1,
                  IF moodScores[i][2] > best.maxScore
                  THEN [maxScore |-> moodScores[i][2], detectedMood |-> moodScores[i][1]]
                  ELSE best)

NeutralBelow == 3      \* a highest score below this is neutral
VeryConfident == 8
Confident == 5

\* ConfidenceOf with maxScore > 5 for maxScore >= 5
ConfidenceOf_StrictlyAbove5(maxScore) ==
    IF maxScore >= 8 THEN 90
    ELSE IF maxScore > 5 THEN 70
    ELSE IF maxScore >= 3 THEN 50
    ELSE 30

\* ConfidenceOf with the two upper bands exchanged
ConfidenceOf_BandsExchanged(maxScore) ==
    IF maxScore >= 8 THEN 70
    ELSE IF maxScore >= 5 THEN 90
    ELSE IF maxScore >= 3 THEN 50
    ELSE 30

\* the confidence of a highest score, in hundredths
ConfidenceOf(maxScore) ==
    IF maxScore >= VeryConfident THEN 90
    ELSE IF maxScore >= Confident THEN 70
    ELSE IF maxScore >= NeutralBelow THEN 50
    ELSE 30

\* MoodDetectionService.getHighestScoringMood
getHighestScoringMood(moodScores) ==
    LET best == MaxEntry(moodScores, 1, [maxScore |-> 0, detectedMood |-> "neutral"])
    IN  IF best.maxScore < NeutralBelow
        THEN [mood |-> "neutral", confidence |-> ConfidenceOf(1)]
        ELSE [mood |-> best.detectedMood, confidence |-> ConfidenceOf(best.maxScore)]

\* whether a scores object has key k, and the value it holds
HasKey(moodScores, k) == \E i \in 1..Len(moodScores) : moodScores[i][1] = k
ScoreOf(moodScores, k) ==
    moodScores[CHOOSE i \in 1..Len(moodScores) : moodScores[i][1] = k][2]

\* MoodDetectionService.generateReasoning
generateReasoning(detectedMood, moodScores, sentimentScore) ==
    LET sentimentReason ==
            IF FracGT(sentimentScore, SentimentCutoff)
            THEN <<"Positive sentiment detected">>
            ELSE IF FracLT(sentimentScore, -SentimentCutoff)
            THEN <<"Negative sentiment detected">>
            ELSE <<>>
        keywordReason ==
            IF HasKey(moodScores, detectedMood)
               /\ ScoreOf(moodScores, detectedMood) > 0
            THEN <<"Keywords related to " \o detectedMood \o " mood found">>
            ELSE <<>>
        reasons == sentimentReason \o keywordReason
    IN  IF Len(reasons) = 0 THEN "Neutral sentiment and no specific mood indicators"
        ELSE IF Len(reasons) = 1 THEN reasons[1]
        ELSE reasons[1] \o ", " \o reasons[2]

\* typeof text === 'string'
\* IsString without the typeof test
IsString_Unchecked(text) == TRUE

\* typeof text === 'string'
IsString(text) == text.type = "string"

CrisisConfidence == 95     \* 0.95, in hundredths
CrisisSadScore == 15

\* EmptyResult with the confidence of the lowest band
EmptyResult_LowestBand(manualMood) ==
    [detected |-> "neutral", confidence |-> 30, manual |-> manualMood,
     selfHarmDetected |-> FALSE,
     analysis |-> [sentiment |-> Frac(0, 1), keywords |-> <<>>,
                   reasoning |-> "No text provided"]]

\* the result detectMood returns when text is empty or not a string
EmptyResult(manualMood) ==
    [detected |-> "neutral", confidence |-> 0, manual |-> manualMood,
     selfHarmDetected |-> FALSE,
     analysis |-> [sentiment |-> Frac(0, 1), keywords |-> <<>>,
                   reasoning |-> "No text provided"]]

\* CrisisResult without the override: the mood and the confidence are those
\* of the category scoring
CrisisResult_NoOverride(clean, manualMood) ==
    LET scored == getHighestScoringMood(calculateMoodScores(clean, analyze(clean).score))
    IN  [detected |-> scored.mood, confidence |-> scored.confidence,
         manual |-> manualMood, selfHarmDetected |-> TRUE,
         analysis |-> [sentiment |-> Frac(-10, 1),
                       keywords |-> getSelfHarmKeywords(clean),
                       reasoning |-> "Crisis content detected - self-harm indicators found",
                       moodScores |-> << <<"sad", CrisisSadScore>> >>,
                       crisisDetected |-> TRUE]]

\* the result detectMood returns for crisis content
CrisisResult(clean, manualMood) ==
    [detected |-> "sad", confidence |-> CrisisConfidence, manual |-> manualMood,
     selfHarmDetected |-> TRUE,
     analysis |-> [sentiment |-> Frac(-10, 1),
                   keywords |-> getSelfHarmKeywords(clean),
                   reasoning |-> "Crisis content detected - self-harm indicators found",
                   moodScores |-> << <<"sad", CrisisSadScore>> >>,
                   crisisDetected |-> TRUE]]

\* NormalResult with detected: manualMood || detectedMoodResult.mood
NormalResult_ManualWins(clean, manualMood) ==
    LET tokens == tokenize(toLowerCase(clean))
        sentimentScore == analyze(clean).score
        moodScores == calculateMoodScores(clean, sentimentScore)
        detectedMoodResult == getHighestScoringMood(moodScores)
    IN  [detected |-> IF Truthy(manualMood) THEN manualMood.val
                      ELSE detectedMoodResult.mood,
         confidence |-> detectedMoodResult.confidence,
         manual |-> manualMood, selfHarmDetected |-> FALSE,
         analysis |-> [sentiment |-> sentimentScore,
                       keywords |-> getDetectedKeywords(tokens),
                       reasoning |-> generateReasoning(detectedMoodResult.mood,
                                                       moodScores, sentimentScore),
                       moodScores |-> moodScores]]

\* the result detectMood returns otherwise
NormalResult(clean, manualMood) ==
    LET tokens == tokenize(toLowerCase(clean))
        sentimentScore == analyze(clean).score
        moodScores == calculateMoodScores(clean, sentimentScore)
        detectedMoodResult == getHighestScoringMood(moodScores)
    IN  [detected |-> detectedMoodResult.mood,
         confidence |-> detectedMoodResult.confidence,
         manual |-> manualMood, selfHarmDetected |-> FALSE,
         analysis |-> [sentiment |-> sentimentScore,
                       keywords |-> getDetectedKeywords(tokens),
                       reasoning |-> generateReasoning(detectedMoodResult.mood,
                                                       moodScores, sentimentScore),
                       moodScores |-> moodScores]]

\* selfHarmDetected || sentimentResult.crisisDetected
IsCrisis(clean) == detectSelfHarm(clean) \/ analyze(clean).crisisDetected

\* what a call leaves in place of a result when it throws
Thrown(error) == [threw |-> error]

\* MoodDetectionService.detectMood; an undefined manualMood takes the
\* default of the parameter, null; this.cleanText(text) of a text that is not
\* a string throws, String.prototype.replace being absent
detectMood(text, manualMoodArg) ==
    LET manualMood == IF manualMoodArg = Undefined THEN Null ELSE manualMoodArg
    IN  IF ~Truthy(text) \/ ~IsString(text) THEN EmptyResult(manualMood)
        ELSE IF text.type # "string"
        THEN Thrown("TypeError: text.replace is not a function")
        ELSE LET clean == cleanText(text.val)
             IN  IF IsCrisis(clean) THEN CrisisResult(clean, manualMood)
                 ELSE NormalResult(clean, manualMood)

\* the names every object inherits from Object.prototype
ObjectPrototypeKeys ==
    {"constructor", "toString", "toLocaleString", "valueOf", "hasOwnProperty",
     "isPrototypeOf", "propertyIsEnumerable", "__proto__", "__defineGetter__",
     "__defineSetter__", "__lookupGetter__", "__lookupSetter__"}

\* the value of the inherited property key: a function, the prototype object
\* for __proto__
Inherited(key) ==
    [type |-> IF key = "__proto__" THEN "object" ELSE "function",
     val |-> "Object.prototype." \o key]

\* the property name a value used as a key is converted to
PropertyKey(v) == IF v = Undefined THEN "undefined" ELSE v.val

\* helplineInfo[key]: own properties first, then those of Object.prototype
HelplineLookup(key) ==
    IF key \in DOMAIN helplineInfo THEN helplineInfo[key]
    ELSE IF key \in ObjectPrototypeKeys THEN Inherited(key)
    ELSE Undefined

\* MoodDetectionService.getHelplineInfo(country = 'US'):
\* helplineInfo[country] || helplineInfo.US
getHelplineInfo(countryArg) ==
    LET country == IF countryArg = Undefined THEN Str("US") ELSE countryArg
        found == HelplineLookup(PropertyKey(country))
    IN  IF found # Undefined THEN found ELSE helplineInfo["US"]

-----------------------------------------------------------------------------
(* Trends *)

\* entry.mood?.detected || entry.mood?.manual || 'neutral'
MoodOfEntry(entry) ==
    Or(Or(Prop(Prop(entry, "mood"), "detected"), Prop(Prop(entry, "mood"), "manual")),
       Str("neutral"))

\* CountMood with moodCounts[mood] = 1 for a mood counted before
CountMood_StartsAgain(moodCounts, mood) ==
    IF \E k \in 1..Len(moodCounts) : moodCounts[k][1] = mood
    THEN [k \in 1..Len(moodCounts) |->
            IF moodCounts[k][1] = mood THEN <<mood, 1>> ELSE moodCounts[k]]
    ELSE Append(moodCounts, <<mood, 1>>)

\* moodCounts[mood] = (moodCounts[mood] || 0) + 1 on the entries of an object
CountMood(moodCounts, mood) ==
    IF \E k \in 1..Len(moodCounts) : moodCounts[k][1] = mood
    THEN [k \in 1..Len(moodCounts) |->
            IF moodCounts[k][1] = mood THEN <<mood, moodCounts[k][2] + 1>>
            ELSE moodCounts[k]]
    ELSE Append(moodCounts, <<mood, 1>>)

\* the entries.forEach of analyzeMoodTrends: moodCounts after the first n entries
RECURSIVE MoodCounts(_, _)
MoodCounts(items, n) ==
    IF n = 0 THEN <<>>
    ELSE CountMood(MoodCounts(items, n - 1), MoodOfEntry(items[n]).val)

\* moodCounts[key]: 0 stands for undefined, which no key of the object holds
CountOf(moodCounts, key) ==
    IF \E k \in 1..Len(moodCounts) : moodCounts[k][1] = key
    THEN moodCounts[CHOOSE k \in 1..Len(moodCounts) : moodCounts[k][1] = key][2]
    ELSE 0

\* Object.keys(moodCounts).reduce((a, b) => moodCounts[a] > moodCounts[b] ? a : b)
\* from the i-th key on, with accumulator a
RECURSIVE DominantFrom(_, _, _)
DominantFrom(moodCounts, i, a) ==
    IF i > Len(moodCounts) THEN a
    ELSE DominantFrom(moodCounts, i + 1,
            IF CountOf(moodCounts, a) > moodCounts[i][2] THEN a ELSE moodCounts[i][1])

RecentWindow == 7

\* Slice_WholeSequence: the window is the whole sequence
Slice_WholeSequence(items, n) == items

\* entries.slice(-n)
Slice(items, n) ==
    SubSeq(items, IF Len(items) > n THEN Len(items) - n + 1 ELSE 1, Len(items))

positiveMoods == {"happy", "excited", "grateful", "calm"}
negativeMoods == {"sad", "angry", "anxious", "lonely"}

\* the trend of the counts of recent positive and recent negative moods
TrendOf(recentPositive, recentNegative) ==
    IF recentPositive > recentNegative + 1 THEN "improving"
    ELSE IF recentNegative > recentPositive + 1 THEN "declining"
    ELSE "stable"

RECURSIVE SumCounts(_, _)
SumCounts(moodCounts, i) ==
    IF i > Len(moodCounts) THEN 0 ELSE moodCounts[i][2] + SumCounts(moodCounts, i + 1)

\* Math.round((count / total) * 100), for total > 0
Percentage(count, total) == (200 * count + total) \div (2 * total)

AnxiousPercent == 30   \* 0.3, in hundredths

\* AnxietyNote with >= for >: the note is given at 30% already
AnxietyNote_FromThirtyPercent(anxious, totalEntries) ==
    anxious * 100 >= totalEntries * AnxiousPercent

\* moodCounts['anxious'] > totalEntries * 0.3
AnxietyNote(anxious, totalEntries) == anxious * 100 > totalEntries * AnxiousPercent

\* MoodDetectionService.generateMoodInsights
generateMoodInsights(moodCounts, trend, dominantMood) ==
    LET totalEntries == SumCounts(moodCounts, 1)
        dominantPercentage == Percentage(CountOf(moodCounts, dominantMood), totalEntries)
    IN  (IF trend = "improving"
         THEN <<"Your mood has been improving recently. Keep up the positive momentum!">>
         ELSE IF trend = "declining"
         THEN <<"Your mood has been declining recently. Consider reaching out for support.">>
         ELSE <<>>)
        \o <<"Your most common mood is " \o dominantMood \o " ("
               \o ToString(dominantPercentage) \o "% of entries)">>
        \o (IF CountOf(moodCounts, "grateful") > 0
            THEN <<"You frequently express gratitude, which is great for mental well-being!">>
            ELSE <<>>)
        \o (IF AnxietyNote(CountOf(moodCounts, "anxious"), totalEntries)
            THEN <<"You experience anxiety frequently. Consider stress management techniques.">>
            ELSE <<>>)

\* NoEntriesResult without the insight
NoEntriesResult_NoInsight ==
    [trend |-> "stable", dominantMood |-> "neutral", moodDistribution |-> <<>>,
     insights |-> <<>>]

\* the result of analyzeMoodTrends when there are no entries
NoEntriesResult ==
    [trend |-> "stable", dominantMood |-> "neutral", moodDistribution |-> <<>>,
     insights |-> <<"No entries available for analysis">>]

\* MoodDetectionService.analyzeMoodTrends
analyzeMoodTrends(entries_) ==
    IF ~Truthy(entries_) \/ Len(entries_.items) = 0
    THEN NoEntriesResult
    ELSE LET items == entries_.items
             moodCounts == MoodCounts(items, Len(items))
             moodScores == [i \in 1..Len(items) |->
                              [date |-> Prop(items[i], "createdAt"),
                               mood |-> MoodOfEntry(items[i]).val,
                               confidence |-> Or(Prop(Prop(items[i], "mood"), "confidence"),
                                                 Num("0"))]]
             dominantMood == DominantFrom(moodCounts, 2, moodCounts[1][1])
             recentMoods == [i \in 1..Len(Slice(items, RecentWindow)) |->
                               MoodOfEntry(Slice(items, RecentWindow)[i]).val]
             recentPositive ==
                 Cardinality({i \in 1..Len(recentMoods) : recentMoods[i] \in positiveMoods})
             recentNegative ==
                 Cardinality({i \in 1..Len(recentMoods) : recentMoods[i] \in negativeMoods})
             trend == TrendOf(recentPositive, recentNegative)
         IN  [trend |-> trend, dominantMood |-> dominantMood,
              moodDistribution |-> moodCounts, moodScores |-> moodScores,
              insights |-> generateMoodInsights(moodCounts, trend, dominantMood)]

-----------------------------------------------------------------------------
(* Calls to the service.  The service object is stateless and synchronous:   *)
(* a call is made when no call is in progress and returns its result.        *)

MaxChunks == 2        \* a text is at most this many chunks long
MaxScored == 2        \* a scores object has at most this many non-zero scores

\* the pieces the texts are made of
TextChunks ==
    {"Suicide hopeless", "can't go on", " excited", " happy", " grateful", "can't wait",
     " good", " bad", " ok", "<", ">", "!"}

RECURSIVE TextsOf(_)
TextsOf(n) ==
    IF n = 0 THEN {""}
    ELSE TextsOf(n - 1) \cup {t \o c : t \in TextsOf(n - 1), c \in TextChunks}

\* the values passed as text: strings, and values that are not strings
TextInputs ==
    {Str(t) : t \in TextsOf(MaxChunks)} \cup {Null, Undefined, Num("42"), Arr(<<>>)}

\* the values passed as manualMood
ManualMoods == {Null, Str("ecstatic")}

\* the sentiment scores passed to calculateMoodScores
SentimentInputs ==
    {Frac(0, 1), Frac(1, 1), Frac(-2, 1), Frac(3, 20), Frac(4, 20), Frac(1, 7),
     Frac(-6, 40), Frac(-8, 40), Frac(-2, 14), Frac(-10, 1)}

\* the texts passed to calculateMoodScores
ScoreTexts ==
    {"", "ok", "a good day", "I am so excited and so sad", "mad and alone",
     "happy and grateful today thank you", "can t wait", "don t know",
     "Calm and Grateful", "worried confused lonely"}

ScoreValues == {2, 3, 4, 5, 8, 10}

\* the scores objects passed to getHighestScoringMood: the keys of the scores
\* object in its order, at most MaxScored of them non-zero
ScoreMaps ==
    {[i \in 1..Len(ScoreKeys) |->
        <<ScoreKeys[i], IF i \in DOMAIN g THEN g[i] ELSE 0>>] :
     g \in UNION {[S -> ScoreValues] :
                    S \in {T \in SUBSET (1..Len(ScoreKeys)) : Cardinality(T) <= MaxScored}}}

MaxRuns == 2          \* a history is at most this many runs of equal records

\* the lengths of the runs
RunLengths == {1, 3, 7}

\* a mood object of a journal entry with the detected mood m
DetectedAs(m) == Obj([detected |-> Str(m), manual |-> Null, confidence |-> Num("0.9")])

\* the values of the property mood of the records: the mood object of a journal
\* entry, one with a manual mood only, and a bare mood string
MoodValues ==
    {DetectedAs(m) : m \in {"happy", "sad", "anxious", "grateful", "neutral"}}
        \cup {Obj([manual |-> Str("calm")]), Str("sad")}

\* the sequences of mood values made of n runs at most
RECURSIVE RunsOf(_)
RunsOf(n) ==
    IF n = 0 THEN {<<>>}
    ELSE RunsOf(n - 1) \cup
         {h \o [i \in 1..k |-> m] : h \in RunsOf(n - 1), k \in RunLengths, m \in MoodValues}

\* the record of position i that carries the mood value m
EntryAt(i, m) == Obj([mood |-> m, createdAt |-> Num(ToString(i))])

\* the values passed as entries: arrays of records, null and undefined
Histories ==
    {Arr([i \in 1..Len(h) |-> EntryAt(i, h[i])]) : h \in RunsOf(MaxRuns)}
        \cup {Null, Undefined}

\* the values passed as country
Countries ==
    {Str("US"), Str("UK"), Str("CA"), Str("AU"), Str("IN"), Str("FR"), Str("ZZ"),
     Str("us"), Str(""), Str("constructor"), Str("__proto__"), Undefined, Null}

\* the country codes of the calls that run between the repeated ones
FewCountries == {Str("US"), Str("IN"), Str("FR")}

NoCall == [fn |-> "none"]
NoResult == [none |-> TRUE]

\* moodPatterns, selfHarmPatterns and helplineInfo as the module holds them
ModuleTables ==
    [moodPatterns |-> moodPatterns, selfHarmPatterns |-> selfHarmPatterns,
     helplineInfo |-> helplineInfo]

\* a call of detectMood with a text of texts and a manual mood of manualMoods;
\* no statement of it assigns to a table of the module
DetectMoodCall(texts, manualMoods) ==
    /\ pc = "idle"
    /\ \E text \in texts, manualMood \in manualMoods :
        /\ call' = [fn |-> "detectMood", text |-> text, manualMood |-> manualMood]
        /\ result' = detectMood(text, manualMood)
    /\ pc' = "done"
    /\ UNCHANGED <<dbVars, authVars, tables, seen>>

CallDetectMood == DetectMoodCall(TextInputs, ManualMoods)

CallCalculateMoodScores ==
    /\ pc = "idle"
    /\ \E text \in ScoreTexts, sentimentScore \in SentimentInputs :
        /\ call' = [fn |-> "calculateMoodScores", text |-> text,
                    sentimentScore |-> sentimentScore]
        /\ result' = calculateMoodScores(text, sentimentScore)
    /\ pc' = "done"
    /\ UNCHANGED <<dbVars, authVars, tables, seen>>

CallGetHighestScoringMood ==
    /\ pc = "idle"
    /\ \E moodScores \in ScoreMaps :
        /\ call' = [fn |-> "getHighestScoringMood", moodScores |-> moodScores]
        /\ result' = getHighestScoringMood(moodScores)
    /\ pc' = "done"
    /\ UNCHANGED <<dbVars, authVars, tables, seen>>

\* a call of analyzeMoodTrends with a history of histories
AnalyzeMoodTrendsCall(histories) ==
    /\ pc = "idle"
    /\ \E history \in histories :
        /\ call' = [fn |-> "analyzeMoodTrends", entries |-> history]
        /\ result' = analyzeMoodTrends(history)
    /\ pc' = "done"
    /\ UNCHANGED <<dbVars, authVars, tables, seen>>

CallAnalyzeMoodTrends == AnalyzeMoodTrendsCall(Histories)

\* a call of getHelplineInfo; the record returned is the one the table holds
GetHelplineInfoCall(countries) ==
    /\ pc = "idle"
    /\ \E country \in countries :
        /\ call' = [fn |-> "getHelplineInfo", country |-> country]
        /\ result' = getHelplineInfo(country)
    /\ pc' = "done"
    /\ UNCHANGED <<dbVars, authVars, tables, seen>>

CallGetHelplineInfo == GetHelplineInfoCall(Countries)

InterleavedHelpline == GetHelplineInfoCall(FewCountries)

\* the caller takes the result
Return ==
    /\ pc = "done"
    /\ pc' = "idle"
    /\ call' = NoCall
    /\ result' = NoResult
    /\ UNCHANGED <<dbVars, authVars, tables, seen>>

\* the texts of the calls that are repeated
RepeatedTexts == {Str("I want to die"), Str("so excited <b>today</b>"), Str("")}

RepeatedManualMoods == {Null, Str("ecstatic")}

\* RepeatDetectMood with a crisis pattern held in a module-level regular
\* expression with the g flag, whose lastIndex outlives the call: every other
\* call misses the match
RepeatDetectMood_StickyRegExp ==
    /\ pc = "idle"
    /\ \E text \in RepeatedTexts, manualMood \in RepeatedManualMoods :
        /\ call' = [fn |-> "detectMood", text |-> text, manualMood |-> manualMood]
        /\ result' = IF Cardinality(seen) % 2 = 1 /\ Truthy(text)
                     THEN NormalResult(cleanText(text.val), manualMood)
                     ELSE detectMood(text, manualMood)
    /\ pc' = "done"
    /\ UNCHANGED <<dbVars, authVars, tables, seen>>

\* a call of detectMood with a text that is passed again and again
RepeatDetectMood == DetectMoodCall(RepeatedTexts, RepeatedManualMoods)

\* the caller takes the result; the call and its result are remembered
ReturnRemembered ==
    /\ pc = "done"
    /\ pc' = "idle"
    /\ call' = NoCall
    /\ result' = NoResult
    /\ seen' = seen \cup {<<call, result>>}
    /\ UNCHANGED <<dbVars, authVars, tables>>

-----------------------------------------------------------------------------
(* The journal routes (routes/journal) over the JournalEntry and Mood        *)
(* collections.  The requests are those of one authenticated user that       *)
(* passed the protect and validateJournalEntry middleware.                   *)

MaxEntries == 1       \* at most this many journal entries are created

\* the _id values of the entries, in the order they are given out
EntryIds == <<"e1", "e2", "e3", "e4">>

Range(seq) == {seq[i] : i \in 1..Len(seq)}

\* req.body.content
JournalContents == {Str("I want to die"), Str("so excited"), Str("")}
\* req.body.mood
JournalMoods == {Undefined, Str("happy"), Str("ecstatic")}
\* req.body.intensity
JournalIntensities == {Undefined, Num("7")}
\* req.params.id
RequestIds == {EntryIds[i] : i \in 1..MaxEntries} \cup {"undefined"}

\* the manualMood arguments the routes pass to detectMood
JournalManuals == JournalMoods \cup {Null}

\* moodDetectionService.detectMood(content, manualMood) for the calls the routes
\* make; the service is stateless, so its answers are computed once
moodDetectionService ==
    [content \in JournalContents, manualMood \in JournalManuals |->
        detectMood(content, manualMood)]

\* a path the request left undefined is stored as the schema's default, null
Stored(v) == IF v.type = "undefined" THEN Null ELSE v

\* the validators of journalEntrySchema that the requests can fail: content is
\* required, mood.manual is one of the enum or null
EntryValid(doc) ==
    /\ doc.content.type = "string" /\ doc.content.val # ""
    /\ doc.mood.detected \in MoodEnum
    /\ doc.mood.manual = Null \/ (doc.mood.manual.type = "string"
                                    /\ doc.mood.manual.val \in MoodEnum)

\* the validators of moodSchema that the requests can fail
MoodValid(doc) ==
    /\ doc.detectedMood \in MoodEnum
    /\ doc.confidence >= 0 /\ doc.confidence <= 100
    /\ doc.manualMood = Null \/ (doc.manualMood.type = "string"
                                   /\ doc.manualMood.val \in MoodEnum)

WordsPerMinute == 200

\* Math.ceil(a / b) for a >= 0, b > 0
CeilDiv(a, b) == (a + b - 1) \div b

\* journalEntrySchema.pre('save'): the word count and the reading time are
\* recomputed.  encryptedContent is a nested path, which Mongoose always hands
\* out as an object, so the encryption branch is not taken.
PreSave(doc) ==
    LET wordCount == Len(tokenize(doc.content.val))
    IN  [doc EXCEPT !.wordCount = wordCount,
                    !.readingTime = CeilDiv(wordCount, WordsPerMinute)]

\* journalEntrySchema.methods.getPublicEntry, without a user key
getPublicEntry(doc) ==
    [id |-> doc.id, content |-> doc.content, mood |-> doc.mood,
     wordCount |-> doc.wordCount, readingTime |-> doc.readingTime,
     isEncrypted |-> doc.isEncrypted, createdAt |-> doc.createdAt]

\* JournalEntry.findOne({_id, user, isDeleted}): the index of the document, 0 if none
FindEntry(id, isDeleted) ==
    IF \E i \in 1..Len(entries) : entries[i].id = id /\ entries[i].isDeleted = isDeleted
    THEN CHOOSE i \in 1..Len(entries) :
            entries[i].id = id /\ entries[i].isDeleted = isDeleted
    ELSE 0

\* Mood.findOne({user, entry}): the index of the first such document, 0 if none
FindMood(entryId) ==
    IF \E i \in 1..Len(moods) : moods[i].entry = entryId
    THEN CHOOSE i \in 1..Len(moods) :
            /\ moods[i].entry = entryId
            /\ \A j \in 1..(i - 1) : moods[j].entry # entryId
    ELSE 0

\* the Mood records of the entry with the given id
MoodsOf(id) == {j \in 1..Len(moods) : moods[j].entry = id}

ServerError(message) == [status |-> 500, message |-> message]

MaxDay == 2           \* the days are numbered 1..MaxDay

\* the hours from one local midnight to the next: 24, and 23 or 25 on the day
\* the clocks of the server's time zone are put forward or back
DayLengths == {23, 24, 25}

\* lastEntryDate: null of the schema default; the days are numbered from 1
NoDate == 0

\* a Date is kept as the day it falls on; setHours(0, 0, 0, 0) and getTime()
\* take it to the local midnight of that day, here in hours
LocalMidnight(day) == midnights[day]

\* the badges updateStreak awards, in the order it tests them, each with the
\* statistic it reads and the value that statistic must reach
Badges ==
    << [badge |-> "first_entry", stat |-> "totalEntries", atLeast |-> 1],
       [badge |-> "week_streak", stat |-> "currentStreak", atLeast |-> 7],
       [badge |-> "month_streak", stat |-> "currentStreak", atLeast |-> 30],
       [badge |-> "year_streak", stat |-> "currentStreak", atLeast |-> 365],
       [badge |-> "mood_tracker", stat |-> "totalEntries", atLeast |-> 10],
       [badge |-> "reflection_master", stat |-> "totalEntries", atLeast |-> 50],
       [badge |-> "consistency_king", stat |-> "totalEntries", atLeast |-> 100] >>

\* newBadges: the badges whose condition holds of stats and that stats lacks
NewBadges(stats) ==
    SelectSeq([i \in 1..Len(Badges) |-> Badges[i].badge],
              LAMBDA b : \E i \in 1..Len(Badges) :
                            /\ Badges[i].badge = b
                            /\ stats[Badges[i].stat] >= Badges[i].atLeast
                            /\ ~arrayIncludes(stats.badges, b))

\* userSchema.methods.updateStreak, called on the day now
updateStreak(u, now) ==
    LET stats == u.stats
        yesterday == now - 1
        currentStreak ==
            IF stats.lastEntryDate # NoDate /\ stats.lastEntryDate = yesterday
            THEN stats.currentStreak + 1
            ELSE IF stats.lastEntryDate # NoDate /\ stats.lastEntryDate = now
            THEN stats.currentStreak
            ELSE 1
        counted == [stats EXCEPT
                      !.currentStreak = currentStreak,
                      !.longestStreak = IF currentStreak > @ THEN currentStreak ELSE @,
                      !.lastEntryDate = now,
                      !.totalEntries = @ + 1]
    IN  [u EXCEPT !.stats = [counted EXCEPT !.badges = @ \o NewBadges(counted)]]

\* router.post('/entries'), for at most limit entries and a body from the
\* given sets
CreateEntryFrom(limit, contents, bodyMoods, intensities) ==
    /\ Len(entries) < limit
    /\ \E content \in contents, mood \in bodyMoods, intensity \in intensities :
        LET moodDetection == moodDetectionService[content, mood]
            entry == [id |-> EntryIds[Len(entries) + 1],
                      content |-> content,
                      mood |-> [detected |-> moodDetection.detected,
                                confidence |-> moodDetection.confidence,
                                manual |-> Stored(moodDetection.manual)],
                      isEncrypted |-> TRUE,
                      encryptedContent |-> [algorithm |-> "AES-256-CBC"],
                      wordCount |-> 0, readingTime |-> 0,
                      isDeleted |-> FALSE,
                      createdAt |-> today]
            hasSelfHarm == moodDetection.selfHarmDetected
            moodRecord == [entry |-> entry.id,
                           detectedMood |-> moodDetection.detected,
                           confidence |-> moodDetection.confidence,
                           manualMood |-> Stored(moodDetection.manual),
                           intensity |-> Or(intensity, Num("5"))]
        IN  /\ request' = [route |-> "POST /entries", content |-> content,
                           mood |-> mood, intensity |-> intensity]
            /\ IF ~EntryValid(entry)
               THEN /\ response' = ServerError("Server error while creating journal entry")
                    /\ UNCHANGED <<entries, moods, user>>
               ELSE /\ entries' = Append(entries, PreSave(entry))
                    /\ IF ~MoodValid(moodRecord)
                       THEN /\ response' = ServerError("Server error while creating journal entry")
                            /\ UNCHANGED <<moods, user>>
                       ELSE /\ moods' = Append(moods, moodRecord)
                            /\ user' = [updateStreak(user, today) EXCEPT !.isActive = TRUE]
                            /\ response' =
                                 [status |-> 201,
                                  data |-> [entry |-> getPublicEntry(PreSave(entry)),
                                            mood |-> moodRecord,
                                            securityAlert |->
                                              IF hasSelfHarm
                                              THEN [hasSelfHarmContent |-> TRUE,
                                                    helpline |-> getHelplineInfo(Undefined)]
                                              ELSE Null]]
    /\ UNCHANGED <<svcVars, authVars, today, midnights>>

CreateEntry ==
    CreateEntryFrom(MaxEntries, JournalContents, JournalMoods, JournalIntensities)

\* router.put('/entries/:id')
UpdateEntry ==
    /\ \E entryId \in RequestIds, content \in JournalContents, mood \in JournalMoods,
          intensity \in JournalIntensities :
        LET found == FindEntry(entryId, FALSE)
            old == entries[found]
            moodDetection ==
                moodDetectionService[content, Or(mood, Or(old.mood.manual, Null))]
            entry == [old EXCEPT !.content = content,
                                 !.mood = [detected |-> moodDetection.detected,
                                           confidence |-> moodDetection.confidence,
                                           manual |-> Or(moodDetection.manual, Null)]]
            existingMood == FindMood(entryId)
            updatedMood ==
                [moods[existingMood] EXCEPT
                    !.detectedMood = moodDetection.detected,
                    !.confidence = moodDetection.confidence,
                    !.manualMood = Or(moodDetection.manual, Null),
                    !.intensity = IF Truthy(intensity) THEN intensity ELSE @]
            newMood == [entry |-> entryId,
                        detectedMood |-> moodDetection.detected,
                        confidence |-> moodDetection.confidence,
                        manualMood |-> Or(moodDetection.manual, Null),
                        intensity |-> Or(intensity, Num("5"))]
        IN  /\ request' = [route |-> "PUT /entries/:id", id |-> entryId,
                           content |-> content, mood |-> mood, intensity |-> intensity]
            /\ IF entryId \in {"undefined", "null"}
               THEN /\ response' = [status |-> 400, message |-> "Invalid entry ID format"]
                    /\ UNCHANGED <<entries, moods>>
               ELSE IF found = 0
               THEN /\ response' = [status |-> 404, message |-> "Journal entry not found"]
                    /\ UNCHANGED <<entries, moods>>
               ELSE IF ~EntryValid(entry)
               THEN /\ response' = ServerError("Server error while updating journal entry")
                    /\ UNCHANGED <<entries, moods>>
               ELSE /\ entries' = [entries EXCEPT ![found] = PreSave(entry)]
                    /\ moods' = IF existingMood # 0
                                THEN IF MoodValid(updatedMood)
                                     THEN [moods EXCEPT ![existingMood] = updatedMood]
                                     ELSE moods
                                ELSE IF MoodValid(newMood)
                                     THEN Append(moods, newMood)
                                     ELSE moods
                    /\ response' = [status |-> 200,
                                    data |-> [entry |-> getPublicEntry(PreSave(entry))]]
    /\ UNCHANGED <<svcVars, authVars, user, today, midnights>>

\* Mood.deleteOne({entry}): the collection without the first such document
DeleteOneMood(entryId) ==
    LET i == FindMood(entryId)
    IN  IF i = 0 THEN moods
        ELSE SubSeq(moods, 1, i - 1) \o SubSeq(moods, i + 1, Len(moods))

\* router.delete('/entries/:id'), for an id of the given ones
DeleteEntryOf(ids) ==
    /\ \E entryId \in ids :
        LET found == FindEntry(entryId, FALSE)
        IN  /\ request' = [route |-> "DELETE /entries/:id", id |-> entryId]
            /\ IF entryId \in {"undefined", "null"}
               THEN /\ response' = [status |-> 400, message |-> "Invalid entry ID format"]
                    /\ UNCHANGED <<entries, moods>>
               ELSE IF found = 0
               THEN /\ response' = [status |-> 404, message |-> "Journal entry not found"]
                    /\ UNCHANGED <<entries, moods>>
               ELSE /\ entries' = [entries EXCEPT
                                     ![found] = PreSave([@ EXCEPT !.isDeleted = TRUE])]
                    /\ moods' = DeleteOneMood(entryId)
                    /\ response' = [status |-> 200,
                                    message |-> "Journal entry deleted successfully"]
    /\ UNCHANGED <<svcVars, authVars, user, today, midnights>>

DeleteEntry == DeleteEntryOf(RequestIds)

\* router.get('/entries/:id/restore')
RestoreEntry ==
    /\ \E entryId \in RequestIds :
        LET found == FindEntry(entryId, TRUE)
            restored == PreSave([entries[found] EXCEPT !.isDeleted = FALSE])
        IN  /\ request' = [route |-> "GET /entries/:id/restore", id |-> entryId]
            /\ IF entryId \notin Range(EntryIds)
               THEN \* the id is no ObjectId: findOne throws a CastError
                    /\ response' = ServerError("Server error while restoring journal entry")
                    /\ UNCHANGED entries
               ELSE IF found = 0
               THEN /\ response' = [status |-> 404,
                                    message |-> "Deleted journal entry not found"]
                    /\ UNCHANGED entries
               ELSE /\ entries' = [entries EXCEPT ![found] = restored]
                    /\ response' = [status |-> 200,
                                    data |-> [entry |-> getPublicEntry(restored)]]
    /\ UNCHANGED moods
    /\ UNCHANGED <<svcVars, authVars, user, today, midnights>>

\* router.delete('/account') of routes/dashboard, with the password of the
\* user: the account is deactivated and its email and username are replaced
DeleteAccount ==
    /\ user.isActive
    /\ request' = [route |-> "DELETE /account"]
    /\ user' = [user EXCEPT !.isActive = FALSE, !.renamed = TRUE]
    /\ response' = [status |-> 200, message |-> "Account deleted successfully"]
    /\ UNCHANGED <<svcVars, authVars, entries, moods, today, midnights>>

\* midnight: new Date() falls on the next day
NextDay ==
    /\ today < MaxDay
    /\ today' = today + 1
    /\ \E hours \in DayLengths :
          midnights' = Append(midnights, midnights[today] + hours)
    /\ UNCHANGED <<svcVars, authVars, entries, moods, request, response, user>>

-----------------------------------------------------------------------------
(* GET /api/user/stats (routes/dashboard): the streaks are computed again    *)
(* from the entries that are not deleted.                                    *)

MaxStreakEntries == 2 \* at most this many entries are created for the streaks

\* 1000 * 60 * 60 * 24 milliseconds, in hours
HoursPerDay == 24

MathMax(a, b) == IF a >= b THEN a ELSE b

\* JournalEntry.find({user, isDeleted: false}): the entries that are not deleted
LiveEntries == {i \in 1..Len(entries) : ~entries[i].isDeleted}

\* getTime() of a Date that setDate(getDate() - 1) has taken before day 1
TimeOf(day) ==
    IF day \in DOMAIN midnights THEN LocalMidnight(day)
    ELSE LocalMidnight(1) - (1 - day) * HoursPerDay

\* Array.from(entryDates).sort((a, b) => b - a)
RECURSIVE SortDescending(_)
SortDescending(times) ==
    IF times = {} THEN <<>>
    ELSE LET latest == CHOOSE t \in times : \A u \in times : u <= t
         IN  <<latest>> \o SortDescending(times \ {latest})

\* the loop that counts the current streak, from sortedDates[i] and checkDate
RECURSIVE CurrentRun(_, _, _)
CurrentRun(sortedDates, i, checkDate) ==
    IF i > Len(sortedDates) THEN 0
    ELSE IF sortedDates[i] = TimeOf(checkDate)
    THEN 1 + CurrentRun(sortedDates, i + 1, checkDate - 1)
    ELSE 0

\* daysBetween === 1
NextTo(prevDate, currDate) == prevDate - currDate = HoursPerDay

\* the loop that finds the longest streak, from sortedDates[i] (counted from 1)
RECURSIVE LongestRun(_, _, _, _)
LongestRun(sortedDates, i, tempStreak, longestStreak) ==
    IF i > Len(sortedDates) THEN MathMax(longestStreak, tempStreak)
    ELSE IF NextTo(sortedDates[i - 1], sortedDates[i])
    THEN LongestRun(sortedDates, i + 1, tempStreak + 1, longestStreak)
    ELSE LongestRun(sortedDates, i + 1, 1, MathMax(longestStreak, tempStreak))

\* the streaks GET /api/user/stats computes on the day now
RecalculatedStreaks(now) ==
    LET entryDates == {LocalMidnight(entries[i].createdAt) : i \in LiveEntries}
        sortedDates == SortDescending(entryDates)
        latestEntry == sortedDates[1]
        daysDiff == (LocalMidnight(now) - latestEntry) \div HoursPerDay
    IN  IF LiveEntries # {} /\ daysDiff <= 1
        THEN [currentStreak |->
                  CurrentRun(sortedDates, 1, IF daysDiff = 1 THEN now - 1 ELSE now),
              longestStreak |-> LongestRun(sortedDates, 2, 1, 0)]
        ELSE [currentStreak |-> 0, longestStreak |-> 0]

\* router.get('/stats') of the user routes
GetUserStats ==
    LET actualEntryCount == Cardinality(LiveEntries)
        recalculated == RecalculatedStreaks(today)
        streaks == [user.stats EXCEPT
                       !.totalEntries = actualEntryCount,
                       !.currentStreak = recalculated.currentStreak,
                       !.longestStreak = MathMax(recalculated.longestStreak, @)]
        stats == [streaks EXCEPT !.badges = @ \o NewBadges(streaks)]
    IN  /\ request' = [route |-> "GET /api/user/stats"]
        /\ user' = [user EXCEPT !.stats = stats]
        /\ response' = [status |-> 200,
                        data |-> [totalEntries |-> stats.totalEntries,
                                  currentStreak |-> stats.currentStreak,
                                  longestStreak |-> stats.longestStreak,
                                  badges |-> stats.badges]]
        /\ UNCHANGED <<svcVars, authVars, entries, moods, today, midnights>>

\* the requests that create and delete the entries of the streaks
StreakContents == {Str("so excited")}

CreateStreakEntry ==
    CreateEntryFrom(MaxStreakEntries, StreakContents, {Undefined}, {Undefined})

DeleteStreakEntry ==
    DeleteEntryOf({EntryIds[i] : i \in 1..MaxStreakEntries})

-----------------------------------------------------------------------------
(* The auth routes (routes/auth) over the User document of one email address. *)
(* A handler is asynchronous: it stands still at each await of a database    *)
(* call, and the handlers of other requests run meanwhile.                   *)

MaxTokens == 3        \* at most this many tokens are generated
MaxTicks == 2         \* the clock advances at most this many times
MaxInFlight == 2      \* at most this many requests are handled at a time

ResetLifetime == 10   \* 10 * 60 * 1000 ms, in minutes

\* the minutes that pass between two steps
Waits == {5, 1440}

Slots == 1..MaxInFlight

\* an absent token (undefined)
NoToken == 0

\* crypto.randomBytes(32).toString('hex'): a value never generated before
FreshToken == Len(issued) + 1

\* the tokens a request presents: those generated, and one that never was
PresentedTokens == 1..(MaxTokens + 1)

NoAccount == [registered |-> FALSE]

\* the history entry of the token of kind generated now
Issue(kind) == [kind |-> kind, at |-> clock, uses |-> 0, usedAt |-> 0]

\* the history after a request succeeded with token now
Used(token) ==
    [issued EXCEPT ![token].uses = @ + 1, ![token].usedAt = clock]

Idle == [route |-> "none", stage |-> "idle"]

\* a handler that awaits a database call
Awaiting(route, token) == [route |-> route, stage |-> "await", token |-> token]

\* the handler of slot s answers the request of route with token
Respond(s, route, token, status, message) ==
    /\ request' = [route |-> route]
    /\ response' = [status |-> status, message |-> message]
    /\ inflight' = [inflight EXCEPT ![s] = Idle]

\* the handler of slot s stands at the await of a database call
Await(s, route, token) ==
    /\ inflight' = [inflight EXCEPT ![s] = Awaiting(route, token)]
    /\ UNCHANGED <<request, response>>

\* what the auth routes leave alone
journalVars == <<entries, moods, user, today, midnights>>

\* the pre('save') hook of the User schema: the password is stored hashed
Hashed(password) == "bcrypt(" \o password \o ")"

\* POST /register, for the email address of the model
Register ==
    /\ account = NoAccount
    /\ Len(issued) < MaxTokens
    /\ account' = [registered |-> TRUE, password |-> Hashed("first"),
                   isEmailVerified |-> FALSE,
                   emailVerificationToken |-> FreshToken,
                   passwordResetToken |-> NoToken, passwordResetExpires |-> 0]
    /\ issued' = Append(issued, Issue("verification"))
    /\ UNCHANGED <<svcVars, dbVars, clock, inflight>>

\* POST /forgot-password up to the answer of User.findOne({ email })
ForgotPasswordFind(s) ==
    /\ inflight[s] = Idle
    /\ IF account = NoAccount
          THEN Respond(s, "forgot-password", NoToken, 200,
                 "If an account with that email exists, a password reset link has been sent.")
          ELSE Await(s, "forgot-password", NoToken)
    /\ UNCHANGED <<svcVars, journalVars, account, clock, issued>>

\* POST /forgot-password from the token generation to the response
ForgotPasswordSave(s) ==
    /\ inflight[s] = Awaiting("forgot-password", NoToken)
    /\ Len(issued) < MaxTokens
    /\ account' = [account EXCEPT !.passwordResetToken = FreshToken,
                                  !.passwordResetExpires = clock + ResetLifetime]
    /\ issued' = Append(issued, Issue("reset"))
    /\ Respond(s, "forgot-password", NoToken, 200,
            "If an account with that email exists, a password reset link has been sent.")
    /\ UNCHANGED <<svcVars, journalVars, clock>>

\* POST /reset-password up to the answer of User.findOne({ passwordResetToken:
\* token, passwordResetExpires: { $gt: Date.now() } })
ResetPasswordFind(s, token) ==
    /\ inflight[s] = Idle
    /\ IF /\ account # NoAccount
             /\ account.passwordResetToken = token
             /\ account.passwordResetExpires > clock
          THEN Await(s, "reset-password", token)
          ELSE Respond(s, "reset-password", token, 400, "Invalid or expired reset token")
    /\ UNCHANGED <<svcVars, journalVars, account, clock, issued>>

\* POST /reset-password from user.password = password to the response: save()
\* writes the paths that were modified
ResetPasswordSave(s) ==
    /\ inflight[s].route = "reset-password" /\ inflight[s].stage = "await"
    /\ account' = [account EXCEPT !.password = Hashed("new"),
                                  !.passwordResetToken = NoToken,
                                  !.passwordResetExpires = 0]
    /\ issued' = Used(inflight[s].token)
    /\ Respond(s, "reset-password", inflight[s].token, 200, "Password reset successful")
    /\ UNCHANGED <<svcVars, journalVars, clock>>

\* GET /verify-email up to the answer of User.findOne({ emailVerificationToken })
VerifyEmailFind(s, token) ==
    /\ inflight[s] = Idle
    /\ IF token = NoToken
          THEN Respond(s, "verify-email", token, 400, "Verification token is required")
          ELSE IF account # NoAccount /\ account.emailVerificationToken = token
          THEN Await(s, "verify-email", token)
          ELSE Respond(s, "verify-email", token, 400, "Invalid verification token")
    /\ UNCHANGED <<svcVars, journalVars, account, clock, issued>>

\* GET /verify-email from user.isEmailVerified = true to the response
VerifyEmailSave(s) ==
    /\ inflight[s].route = "verify-email" /\ inflight[s].stage = "await"
    /\ account' = [account EXCEPT !.isEmailVerified = TRUE,
                                  !.emailVerificationToken = NoToken]
    /\ issued' = Used(inflight[s].token)
    /\ Respond(s, "verify-email", inflight[s].token, 200, "Email verified successfully")
    /\ UNCHANGED <<svcVars, journalVars, clock>>

\* POST /resend-verification: req.user is the document protect has loaded; the
\* handler runs to its await of user.save()
ResendVerificationCheck(s) ==
    /\ inflight[s] = Idle
    /\ account # NoAccount
    /\ IF account.isEmailVerified
          THEN Respond(s, "resend-verification", NoToken, 400, "Email is already verified")
          ELSE Await(s, "resend-verification", NoToken)
    /\ UNCHANGED <<svcVars, journalVars, account, clock, issued>>

\* POST /resend-verification: the new token is saved and mailed
ResendVerificationSave(s) ==
    /\ inflight[s] = Awaiting("resend-verification", NoToken)
    /\ Len(issued) < MaxTokens
    /\ account' = [account EXCEPT !.emailVerificationToken = FreshToken]
    /\ issued' = Append(issued, Issue("verification"))
    /\ Respond(s, "resend-verification", NoToken, 200, "Verification email sent successfully")
    /\ UNCHANGED <<svcVars, journalVars, clock>>

\* the number of waits that make up the time t
TicksAt(t) == (t \div 1440) + ((t % 1440) \div 5)

\* minutes pass; a database call in progress takes no such time
Tick ==
    /\ \A s \in Slots : inflight[s] = Idle
    /\ TicksAt(clock) < MaxTicks
    /\ \E wait \in Waits : clock' = clock + wait
    /\ UNCHANGED <<svcVars, dbVars, account, inflight, issued>>

ForgotPassword == \E s \in Slots : ForgotPasswordFind(s) \/ ForgotPasswordSave(s)

ResetPassword ==
    \E s \in Slots : (\E token \in PresentedTokens : ResetPasswordFind(s, token))
                         \/ ResetPasswordSave(s)

VerifyEmail ==
    \E s \in Slots : (\E token \in PresentedTokens \cup {NoToken} : VerifyEmailFind(s, token))
                         \/ VerifyEmailSave(s)

ResendVerification ==
    \E s \in Slots : ResendVerificationCheck(s) \/ ResendVerificationSave(s)

-----------------------------------------------------------------------------
(* The update routes of an entry and of its Mood record, handler by handler: *)
(* each stands still at the await of a database call, where the handler of   *)
(* another request may run.                                                  *)

\* req.body.mood of PUT /api/mood/:id, which validateMood has let through
MoodUpdates == {Str("happy"), Str("sad")}

\* req.body.content and req.body.mood of the interleaved PUT /entries/:id
InterleavedContents == {Str("so excited")}
InterleavedMoods == {Undefined, Str("calm")}

\* the manualMood arguments these requests lead to
InterleavedManuals ==
    {Null} \cup MoodUpdates \cup (InterleavedMoods \ {Undefined})
        \cup (JournalMoods \ {Undefined})

\* moodDetectionService.detectMood for the calls of the interleaved updates
interleavedDetection ==
    [content \in InterleavedContents, manualMood \in InterleavedManuals |->
        detectMood(content, manualMood)]

\* document.save() of a document that was loaded as loaded and is now changed:
\* the paths that were modified are written, the others keep what the
\* database holds
SaveModified(stored, loaded, changed) ==
    [path \in DOMAIN stored |->
        IF path \in DOMAIN changed /\ (path \notin DOMAIN loaded
                                        \/ changed[path] # loaded[path])
        THEN changed[path] ELSE stored[path]]

\* save() of an entry: mood is a nested path, whose paths are written one by one
SaveEntry(stored, loaded, changed) ==
    [SaveModified(stored, loaded, changed) EXCEPT
        !.mood = SaveModified(stored.mood, loaded.mood, changed.mood)]

\* PUT /entries/:id up to the answer of JournalEntry.findOne
UpdateEntryFind(s) ==
    /\ inflight[s] = Idle
    /\ \E entryId \in RequestIds, content \in InterleavedContents,
          mood \in InterleavedMoods :
        LET found == FindEntry(entryId, FALSE)
        IN  /\ request' = [route |-> "PUT /entries/:id", id |-> entryId,
                           content |-> content, mood |-> mood, intensity |-> Undefined]
            /\ IF entryId \in {"undefined", "null"}
               THEN /\ response' = [status |-> 400, message |-> "Invalid entry ID format"]
                    /\ UNCHANGED inflight
               ELSE IF found = 0
               THEN /\ response' = [status |-> 404, message |-> "Journal entry not found"]
                    /\ UNCHANGED inflight
               ELSE /\ inflight' = [inflight EXCEPT ![s] =
                          [route |-> "PUT /entries/:id", stage |-> "entry.save",
                           content |-> content, mood |-> mood,
                           loaded |-> entries[found]]]
                    /\ UNCHANGED response
    /\ UNCHANGED <<svcVars, account, clock, issued, entries, moods, user, today, midnights>>

\* PUT /entries/:id from entry.title = title to the await of entry.save()
UpdateEntrySave(s) ==
    /\ inflight[s].route = "PUT /entries/:id" /\ inflight[s].stage = "entry.save"
    /\ LET old == inflight[s].loaded
           found == FindEntry(old.id, old.isDeleted)
           moodDetection ==
               interleavedDetection[inflight[s].content,
                                    Or(inflight[s].mood, Or(old.mood.manual, Null))]
           entry == PreSave([old EXCEPT
                       !.content = inflight[s].content,
                       !.mood = [detected |-> moodDetection.detected,
                                 confidence |-> moodDetection.confidence,
                                 manual |-> Or(moodDetection.manual, Null)]])
       IN  IF ~EntryValid(entry)
           THEN /\ request' = [route |-> "PUT /entries/:id", id |-> old.id,
                               content |-> inflight[s].content,
                               mood |-> inflight[s].mood, intensity |-> Undefined]
                /\ response' = ServerError("Server error while updating journal entry")
                /\ inflight' = [inflight EXCEPT ![s] = Idle]
                /\ UNCHANGED entries
           ELSE /\ entries' = [entries EXCEPT ![found] = SaveEntry(@, old, entry)]
                /\ inflight' = [inflight EXCEPT ![s] =
                      [route |-> "PUT /entries/:id", stage |-> "Mood.findOne",
                       entry |-> entry]]
                /\ UNCHANGED <<request, response>>
    /\ UNCHANGED <<svcVars, account, clock, issued, moods, user, today, midnights>>

\* PUT /entries/:id up to the answer of Mood.findOne({ user, entry })
UpdateEntryMoodFind(s) ==
    /\ inflight[s].route = "PUT /entries/:id" /\ inflight[s].stage = "Mood.findOne"
    /\ LET existingMood == FindMood(inflight[s].entry.id)
       IN  inflight' = [inflight EXCEPT ![s] =
              [route |-> "PUT /entries/:id", stage |-> "existingMood.save",
               entry |-> inflight[s].entry,
               existingMood |-> IF existingMood = 0 THEN Null ELSE moods[existingMood]]]
    /\ UNCHANGED <<svcVars, account, clock, issued, entries, moods, request, response,
                   user, today, midnights>>

\* PUT /entries/:id from existingMood.detectedMood = ... to the response
UpdateEntryMoodSave(s) ==
    /\ inflight[s].route = "PUT /entries/:id" /\ inflight[s].stage = "existingMood.save"
    /\ LET entry == inflight[s].entry
           existingMood == inflight[s].existingMood
           stored == FindMood(entry.id)
           changed == [detectedMood |-> entry.mood.detected,
                       confidence |-> entry.mood.confidence,
                       manualMood |-> entry.mood.manual]
       IN  /\ moods' = IF existingMood = Null
                       THEN Append(moods, [entry |-> entry.id, intensity |-> Num("5")]
                                              @@ changed)
                       ELSE [moods EXCEPT ![stored] =
                                SaveModified(@, existingMood, changed)]
           /\ request' = [route |-> "PUT /entries/:id", id |-> entry.id,
                          content |-> entry.content, mood |-> entry.mood.manual,
                          intensity |-> Undefined]
           /\ response' = [status |-> 200, data |-> [entry |-> getPublicEntry(entry)]]
    /\ inflight' = [inflight EXCEPT ![s] = Idle]
    /\ UNCHANGED <<svcVars, account, clock, issued, entries, user, today, midnights>>

\* PUT /api/mood/:id up to the answer of Mood.findOne; the Mood record asked
\* for is that of the entry id
UpdateMoodFind(s) ==
    /\ inflight[s] = Idle
    /\ \E id \in RequestIds, mood \in MoodUpdates :
        LET found == FindMood(id)
        IN  /\ request' = [route |-> "PUT /api/mood/:id", id |-> id, mood |-> mood]
            /\ IF found = 0
               THEN /\ response' = [status |-> 404, message |-> "Mood record not found"]
                    /\ UNCHANGED inflight
               ELSE /\ inflight' = [inflight EXCEPT ![s] =
                          [route |-> "PUT /api/mood/:id", stage |-> "moodRecord.save",
                           mood |-> mood, moodRecord |-> moods[found]]]
                    /\ UNCHANGED response
    /\ UNCHANGED <<svcVars, account, clock, issued, entries, moods, user, today, midnights>>

\* PUT /api/mood/:id from moodRecord.manualMood = mood to the await of
\* moodRecord.save()
UpdateMoodSave(s) ==
    /\ inflight[s].route = "PUT /api/mood/:id" /\ inflight[s].stage = "moodRecord.save"
    /\ LET loaded == inflight[s].moodRecord
           stored == FindMood(loaded.entry)
           changed == [manualMood |-> inflight[s].mood]
       IN  /\ moods' = [moods EXCEPT ![stored] = SaveModified(@, loaded, changed)]
           /\ inflight' = [inflight EXCEPT ![s] =
                 [route |-> "PUT /api/mood/:id", stage |-> "findByIdAndUpdate",
                  mood |-> inflight[s].mood,
                  moodRecord |-> [loaded EXCEPT !.manualMood = inflight[s].mood]]]
    /\ UNCHANGED <<svcVars, account, clock, issued, entries, request, response, user, today, midnights>>

\* PUT /api/mood/:id from JournalEntry.findByIdAndUpdate(moodRecord.entry,
\* { 'mood.manual': mood }) to the response
UpdateMoodEntry(s) ==
    /\ inflight[s].route = "PUT /api/mood/:id" /\ inflight[s].stage = "findByIdAndUpdate"
    /\ LET moodRecord == inflight[s].moodRecord
       IN  /\ entries' = [i \in 1..Len(entries) |->
                            IF entries[i].id = moodRecord.entry
                            THEN [entries[i] EXCEPT !.mood.manual = inflight[s].mood]
                            ELSE entries[i]]
           /\ request' = [route |-> "PUT /api/mood/:id", id |-> moodRecord.entry,
                          mood |-> inflight[s].mood]
           /\ response' = [status |-> 200, message |-> "Mood updated successfully",
                           data |-> [mood |-> moodRecord]]
    /\ inflight' = [inflight EXCEPT ![s] = Idle]
    /\ UNCHANGED <<svcVars, account, clock, issued, moods, user, today, midnights>>

\* POST /entries while no other request is handled
CreateEntryAlone ==
    /\ \A s \in Slots : inflight[s] = Idle
    /\ CreateEntry

UpdateEntrySteps ==
    \E s \in Slots : \/ UpdateEntryFind(s) \/ UpdateEntrySave(s)
                     \/ UpdateEntryMoodFind(s) \/ UpdateEntryMoodSave(s)

UpdateMoodSteps ==
    \E s \in Slots : UpdateMoodFind(s) \/ UpdateMoodSave(s) \/ UpdateMoodEntry(s)

Init ==
    /\ pc = "idle"
    /\ call = NoCall
    /\ result = NoResult
    /\ entries = <<>>
    /\ moods = <<>>
    /\ request = [route |-> "none"]
    /\ response = [status |-> 0]
    /\ user = [isActive |-> TRUE, renamed |-> FALSE,
               stats |-> [totalEntries |-> 0, currentStreak |-> 0, longestStreak |-> 0,
                          lastEntryDate |-> NoDate, badges |-> <<>>]]
    /\ today = 1
    /\ midnights = <<0>>
    /\ tables = ModuleTables
    /\ seen = {}
    /\ account = NoAccount
    /\ clock = 0
    /\ inflight = [s \in Slots |-> Idle]
    /\ issued = <<>>

Next ==
    \/ CallDetectMood
    \/ CallCalculateMoodScores
    \/ CallGetHighestScoringMood
    \/ CallGetHelplineInfo
    \/ Return

Spec == Init /\ [][Next]_vars

NextTrends ==
    \/ CallAnalyzeMoodTrends
    \/ Return

SpecTrends == Init /\ [][NextTrends]_vars

\* the histories of the calls that run between the repeated ones
FewHistories ==
    {Arr(<<EntryAt(1, DetectedAs("happy")), EntryAt(2, DetectedAs("sad"))>>), Null}

InterleavedTrends == AnalyzeMoodTrendsCall(FewHistories)

NextRepeated ==
    \/ RepeatDetectMood
    \/ InterleavedTrends
    \/ InterleavedHelpline
    \/ ReturnRemembered

SpecRepeated == Init /\ [][NextRepeated]_vars

NextJournal ==
    \/ CreateEntry
    \/ UpdateEntry
    \/ DeleteEntry
    \/ RestoreEntry
    \/ DeleteAccount
    \/ NextDay

SpecJournal == Init /\ [][NextJournal]_vars

NextStreak ==
    \/ CreateStreakEntry
    \/ DeleteStreakEntry
    \/ GetUserStats
    \/ NextDay

SpecStreak == Init /\ [][NextStreak]_vars

NextAuth ==
    \/ Register
    \/ ForgotPassword
    \/ ResetPassword
    \/ VerifyEmail
    \/ ResendVerification
    \/ Tick

SpecAuth == Init /\ [][NextAuth]_vars

NextInterleaved ==
    \/ CreateEntryAlone
    \/ UpdateEntrySteps
    \/ UpdateMoodSteps

SpecInterleaved == Init /\ [][NextInterleaved]_vars

-----------------------------------------------------------------------------
(* Properties of the classification pipeline *)

\* the last call was detectMood and has returned
Detected == pc = "done" /\ call.fn = "detectMood"
\* ... with a non-empty string as text
DetectedText == Detected /\ IsString(call.text) /\ Truthy(call.text)

\* whether s contains, case-insensitively, a phrase of the sequence phrases
ContainsPhrase(s, phrases) ==
    LET lower == toLowerCase(s)
    IN  \E i \in 1..Len(phrases) : includes(lower, phrases[i])

\* the categories one of whose markers occurs, case-insensitively, in s
MatchedMoods(s) ==
    LET lower == toLowerCase(s)
    IN  {Cascade[i].mood : i \in {j \in 1..Len(Cascade) :
            \E m \in Cascade[j].markers : includes(lower, m)}}

\* the order in which the categories take precedence
Precedence ==
    <<"excited", "sad", "angry", "anxious", "confused", "lonely", "happy",
      "grateful", "calm">>

\* the category of the set matched that comes first in Precedence
FirstOf(matched) ==
    Precedence[CHOOSE i \in 1..Len(Precedence) :
                  /\ Precedence[i] \in matched
                  /\ \A j \in 1..(i - 1) : Precedence[j] \notin matched]

\* the scores object that holds v under key k and 0 under the nine other keys
TenKeys(k, v) ==
    << <<"happy", IF k = "happy" THEN v ELSE 0>>,
       <<"sad", IF k = "sad" THEN v ELSE 0>>,
       <<"angry", IF k = "angry" THEN v ELSE 0>>,
       <<"anxious", IF k = "anxious" THEN v ELSE 0>>,
       <<"excited", IF k = "excited" THEN v ELSE 0>>,
       <<"calm", IF k = "calm" THEN v ELSE 0>>,
       <<"grateful", IF k = "grateful" THEN v ELSE 0>>,
       <<"lonely", IF k = "lonely" THEN v ELSE 0>>,
       <<"confused", IF k = "confused" THEN v ELSE 0>>,
       <<"neutral", IF k = "neutral" THEN v ELSE 0>> >>

\* C1: every text that contains, case-insensitively, a phrase of
\* selfHarmPatterns is classified with selfHarmDetected = true, whatever
\* punctuation, markup or words surround the phrase.
C1_CrisisPhraseDetected ==
    (DetectedText /\ ContainsPhrase(call.text.val, selfHarmPatterns))
        => result.selfHarmDetected = TRUE

\* C2: every result with selfHarmDetected = true has detected mood sad and
\* confidence 0.95, whatever category markers the text contains.
C2_CrisisIsSad ==
    (Detected /\ result.selfHarmDetected)
        => (result.detected = "sad" /\ result.confidence = 95)

\* a crisis text that also contains a marker of the excited category
C2_Witness ==
    /\ DetectedText /\ result.selfHarmDetected
    /\ "excited" \in MatchedMoods(cleanText(call.text.val))
    /\ result.detected = "sad" /\ result.confidence = 95

\* the sentiment score of the normalized text lies within [-0.15, 0.15]
SentimentWithinCutoff(text) ==
    LET score == analyze(cleanText(text)).score
    IN  ~FracGT(score, 15) /\ ~FracLT(score, -15)

\* a non-empty text whose normalized form has no category marker and no crisis
\* phrase, and whose sentiment score lies within [-0.15, 0.15]
C4_Case ==
    /\ DetectedText
    /\ MatchedMoods(cleanText(call.text.val)) = {}
    /\ ~ContainsPhrase(cleanText(call.text.val), selfHarmPatterns)
    /\ SentimentWithinCutoff(call.text.val)

\* C4, as claimed: such a text is classified neutral with confidence 0.30.
C4_NeutralConfidence30 ==
    C4_Case => (result.detected = "neutral" /\ result.confidence = 30)

\* C4, amended: such a text is classified neutral with confidence 0.70, the
\* band of the score 5 the sentiment fallback gives to neutral.
C4_NeutralConfidence70 ==
    C4_Case => (result.detected = "neutral" /\ result.confidence = 70)

\* a text with words, none of them a marker, classified neutral at 0.70
C4_Witness ==
    /\ C4_Case /\ cleanText(call.text.val) # ""
    /\ result.detected = "neutral" /\ result.confidence = 70

\* a text without a crisis phrase whose normalized form matches a marker
C5_Case ==
    /\ DetectedText
    /\ ~ContainsPhrase(cleanText(call.text.val), selfHarmPatterns)
    /\ MatchedMoods(cleanText(call.text.val)) # {}

\* C5: for a text without a crisis phrase that matches markers of one or more
\* categories, the detected mood is the matched category that comes first in
\* the order excited, sad, angry, anxious, confused, lonely, happy, grateful,
\* calm; it alone scores 10, the others 0, and the confidence is 0.90.
C5_FirstCategoryWins ==
    C5_Case =>
        LET winner == FirstOf(MatchedMoods(cleanText(call.text.val)))
        IN  /\ result.detected = winner
            /\ result.analysis.moodScores = TenKeys(winner, 10)
            /\ result.confidence = 90

\* a text that matches the markers of two categories
C5_Witness ==
    /\ C5_Case
    /\ {"happy", "grateful"} \subseteq MatchedMoods(cleanText(call.text.val))
    /\ result.detected = "happy"

\* C6: every marker phrase of the cascade is matched when it occurs in the text
\* passed to detectMood, the phrases with an apostrophe included: a text with
\* no crisis phrase that contains a marker of a category is classified as that
\* category or as one that precedes it.
C6_MarkerInTextMatched ==
    (/\ DetectedText
     /\ ~ContainsPhrase(call.text.val, selfHarmPatterns)
     /\ ~result.selfHarmDetected
     /\ MatchedMoods(call.text.val) # {})
        => result.detected = FirstOf(MatchedMoods(call.text.val))

\* the last call was calculateMoodScores and has returned
Scored == pc = "done" /\ call.fn = "calculateMoodScores"

\* C7: when no marker matches, the scores are decided by the sentiment score
\* alone: above 0.15 happy = 5, below -0.15 sad = 5, otherwise (0.15 and -0.15
\* included) neutral = 5, every other category 0; when a marker matches, the
\* sentiment score has no part in the scores.
C7_SentimentFallback ==
    /\ (Scored /\ MatchedMoods(call.text) = {}) =>
          LET score == call.sentimentScore
          IN  result = IF score.num * 100 > 15 * score.den THEN TenKeys("happy", 5)
                       ELSE IF score.num * 100 < -15 * score.den THEN TenKeys("sad", 5)
                       ELSE TenKeys("neutral", 5)
    /\ (Scored /\ MatchedMoods(call.text) # {}) =>
          result = TenKeys(FirstOf(MatchedMoods(call.text)), 10)
    /\ (DetectedText /\ ~result.selfHarmDetected
          /\ MatchedMoods(cleanText(call.text.val)) = {}) =>
          LET score == result.analysis.sentiment
          IN  result.analysis.moodScores =
                IF score.num * 100 > 15 * score.den THEN TenKeys("happy", 5)
                ELSE IF score.num * 100 < -15 * score.den THEN TenKeys("sad", 5)
                ELSE TenKeys("neutral", 5)

\* no marker, and a sentiment score of exactly 0.15
C7_Witness ==
    /\ Scored /\ MatchedMoods(call.text) = {}
    /\ call.sentimentScore = Frac(3, 20)
    /\ result = TenKeys("neutral", 5)

\* the last call was getHighestScoringMood and has returned
Selected == pc = "done" /\ call.fn = "getHighestScoringMood"

\* the greatest score of a scores object
MaxScoreOf(moodScores) ==
    CHOOSE v \in {moodScores[i][2] : i \in 1..Len(moodScores)} :
        \A i \in 1..Len(moodScores) : moodScores[i][2] <= v

\* the first key, in enumeration order, that holds the greatest score
FirstMaxKey(moodScores) ==
    moodScores[CHOOSE i \in 1..Len(moodScores) :
                  /\ moodScores[i][2] = MaxScoreOf(moodScores)
                  /\ \A j \in 1..(i - 1) : moodScores[j][2] # MaxScoreOf(moodScores)][1]

\* C8: getHighestScoringMood returns the category with the greatest score, the
\* first in enumeration order among ties; below 3 it returns neutral with
\* confidence 0.30; otherwise the confidence is 0.90 from 8, 0.70 from 5 and
\* 0.50 from 3.
C8_HighestScoringMood ==
    Selected =>
        LET top == MaxScoreOf(call.moodScores)
        IN  IF top < 3 THEN result = [mood |-> "neutral", confidence |-> 30]
            ELSE /\ result.mood = FirstMaxKey(call.moodScores)
                 /\ result.confidence =
                        IF top >= 8 THEN 90 ELSE IF top >= 5 THEN 70 ELSE 50

\* two categories tie at the greatest score and the first of them is returned
C8_Witness ==
    /\ Selected
    /\ MaxScoreOf(call.moodScores) >= 3
    /\ Cardinality({i \in 1..Len(call.moodScores) :
                      call.moodScores[i][2] = MaxScoreOf(call.moodScores)}) = 2
    /\ result.mood = FirstMaxKey(call.moodScores)

\* the keys of a scores object
KeysOf(moodScores) == {moodScores[i][1] : i \in 1..Len(moodScores)}

\* a scores object with exactly the ten mood keys, each once
HasTenKeys(moodScores) == Len(moodScores) = 10 /\ KeysOf(moodScores) = MoodEnum

\* C9, as claimed: every result of detectMood, on the empty-input path, the
\* crisis path and the normal path alike, carries moodScores with exactly the
\* ten mood keys.
C9_AlwaysTenKeys ==
    Detected =>
        /\ "moodScores" \in DOMAIN result.analysis
        /\ HasTenKeys(result.analysis.moodScores)

\* C9, amended: on the normal path the result carries moodScores with exactly
\* the ten mood keys, every one 0 but the winning one; on the crisis path
\* moodScores is {sad: 15}; on the empty-input path the result carries no
\* moodScores.
C9_TenKeysOnNormalPath ==
    /\ (DetectedText /\ ~result.selfHarmDetected) =>
          /\ "moodScores" \in DOMAIN result.analysis
          /\ HasTenKeys(result.analysis.moodScores)
          /\ Cardinality({i \in 1..10 : result.analysis.moodScores[i][2] # 0}) = 1
    /\ (Detected /\ result.selfHarmDetected) =>
          result.analysis.moodScores = << <<"sad", 15>> >>
    /\ (Detected /\ ~DetectedText) => "moodScores" \notin DOMAIN result.analysis

\* a result of the normal path
C9_Witness ==
    /\ DetectedText /\ ~result.selfHarmDetected
    /\ result.detected = "excited"
    /\ HasTenKeys(result.analysis.moodScores)

\* C10: every result of detectMood has a detected mood of the Mood enumeration
\* and a confidence within [0, 1], and the confidence getHighestScoringMood
\* gives never decreases as the winning score rises.
C10_MoodAndConfidenceRange ==
    /\ Detected =>
          /\ result.detected \in MoodEnum
          /\ result.confidence >= 0 /\ result.confidence <= 100
    /\ Selected =>
          /\ result.mood \in MoodEnum
          /\ result.confidence >= 0 /\ result.confidence <= 100
          /\ \A lower \in ScoreValues \cup {0} :
                lower <= MaxScoreOf(call.moodScores) =>
                    getHighestScoringMood(TenKeys("happy", lower)).confidence
                        <= result.confidence

\* a winning score of the highest tier
C10_Witness ==
    /\ Selected
    /\ MaxScoreOf(call.moodScores) = 10
    /\ result.confidence = 90

-----------------------------------------------------------------------------
(* Properties of the sentiment score and of the inputs without text *)

\* the tokens of the normalized text
NormalizedTokens(text) == tokenize(toLowerCase(cleanText(text)))

\* positive-lexicon tokens minus twice the negative-lexicon tokens
LexiconBalance(tokens) ==
    Cardinality({i \in 1..Len(tokens) : tokens[i] \in positiveWords})
        - 2 * Cardinality({i \in 1..Len(tokens) : tokens[i] \in negativeWords})

\* the sentiment a is (positive - 2 negative) / max(token count, 1) of text
IsScorerValue(a, text) ==
    LET tokens == NormalizedTokens(text)
        count == IF Len(tokens) > 1 THEN Len(tokens) ELSE 1
    IN  a.num * count = LexiconBalance(tokens) * a.den

\* C11, as claimed: for every classified text the sentiment stored in the
\* result is (positive tokens - 2 * negative tokens) / max(token count, 1) of
\* the normalized text, and 0 when there are no tokens.
C11_SentimentIsScorerValue ==
    /\ DetectedText => IsScorerValue(result.analysis.sentiment, call.text.val)
    /\ (Detected /\ ~DetectedText) => result.analysis.sentiment.num = 0

\* C11, amended: that holds of every text classified on the normal path and
\* of the inputs without text; on the crisis path the sentiment stored is -10.
C11_SentimentOnNormalPath ==
    /\ (DetectedText /\ ~result.selfHarmDetected) =>
          IsScorerValue(result.analysis.sentiment, call.text.val)
    /\ (Detected /\ ~DetectedText) => result.analysis.sentiment.num = 0
    /\ (Detected /\ result.selfHarmDetected) =>
          result.analysis.sentiment = Frac(-10, 1)

\* a text of the normal path with a negative-lexicon token among its tokens
C11_Witness ==
    /\ DetectedText /\ ~result.selfHarmDetected
    /\ LexiconBalance(NormalizedTokens(call.text.val)) = -2
    /\ Len(NormalizedTokens(call.text.val)) = 2
    /\ result.analysis.sentiment = Frac(-2, 2)

\* C12: for a text that is the empty string, null, undefined or not a string,
\* detectMood returns detected mood neutral, confidence 0 and
\* selfHarmDetected = false.
C12_NoTextIsNeutralZero ==
    (Detected /\ ~DetectedText) =>
        /\ result.detected = "neutral"
        /\ result.confidence = 0
        /\ result.selfHarmDetected = FALSE

\* a call whose text is a number
C12_Witness ==
    /\ Detected /\ call.text = Num("42")
    /\ result.detected = "neutral" /\ result.confidence = 0

\* C13: a string that normalizes to the empty string (whitespace, punctuation
\* or tags only) is classified neutral with confidence 0, as the empty string.
C13_BlankIsNeutralZero ==
    (DetectedText /\ cleanText(call.text.val) = "") =>
        (result.detected = "neutral" /\ result.confidence = 0)

\* C14: detectMood returns a result and raises no error, for every text value
\* and every manualMood value.
C14_NeverThrows ==
    Detected => ("threw" \notin DOMAIN result /\ "detected" \in DOMAIN result)

\* a call whose text is not a string and whose manualMood is no mood
C14_Witness ==
    /\ Detected /\ call.text \in {Num("42"), Null}
    /\ call.manualMood = Str("ecstatic")
    /\ "detected" \in DOMAIN result

\* C15: the manualMood argument is returned unchanged on the three paths,
\* values outside the Mood enumeration included, and has no influence on the
\* rest of the result: the result is that of the same text with no manualMood,
\* but for the manual field.
C15_ManualPassedThrough ==
    Detected =>
        /\ result.manual = call.manualMood
        /\ result = [detectMood(call.text, Null) EXCEPT !.manual = call.manualMood]

\* a manualMood outside the enumeration, on the normal path
C15_Witness ==
    /\ DetectedText /\ ~result.selfHarmDetected
    /\ call.manualMood = Str("ecstatic")
    /\ result.manual = Str("ecstatic")
    /\ result.detected = "excited"

-----------------------------------------------------------------------------
(* Determinism of the service and the module tables *)

-----------------------------------------------------------------------------
(* Properties of the trend analysis *)

\* analyzeMoodTrends has returned for a history that is not empty
Trended ==
    /\ pc = "done" /\ call.fn = "analyzeMoodTrends"
    /\ Truthy(call.entries) /\ Len(call.entries.items) > 0

\* the mood a journal entry carries: the detected mood, else the manual mood,
\* else neutral
StoredMood(entry) ==
    LET mood == entry.props.mood
    IN  IF mood.val # "object" THEN "neutral"
        ELSE IF "detected" \in DOMAIN mood.props /\ mood.props.detected.type = "string"
        THEN mood.props.detected.val
        ELSE IF "manual" \in DOMAIN mood.props /\ mood.props.manual.type = "string"
        THEN mood.props.manual.val
        ELSE "neutral"

\* the number of the records of items whose mood is in the set S
NumberWithMoodIn(items, S) ==
    Cardinality({i \in 1..Len(items) : StoredMood(items[i]) \in S})

\* the last 7 records of items, all of them when there are fewer
LastSeven(items) ==
    [i \in 1..(IF Len(items) < 7 THEN Len(items) ELSE 7) |->
        items[Len(items) - (IF Len(items) < 7 THEN Len(items) ELSE 7) + i]]

\* C17: the trend is a function of the last 7 records alone: improving when
\* those with a mood in {happy, excited, grateful, calm} exceed those with a
\* mood in {sad, angry, anxious, lonely} by more than 1, declining in the
\* mirrored case, stable otherwise; 7 happy then 7 sad records give declining.
C17_TrendFromLastSeven ==
    Trended =>
        LET last == LastSeven(call.entries.items)
            positive == NumberWithMoodIn(last, {"happy", "excited", "grateful", "calm"})
            negative == NumberWithMoodIn(last, {"sad", "angry", "anxious", "lonely"})
        IN  /\ positive - negative > 1 => result.trend = "improving"
            /\ negative - positive > 1 => result.trend = "declining"
            /\ (positive - negative <= 1 /\ negative - positive <= 1) =>
                  result.trend = "stable"
            /\ result.trend = analyzeMoodTrends(Arr(last)).trend

\* 7 happy records followed by 7 sad records: declining
C17_Witness ==
    /\ Trended /\ Len(call.entries.items) = 14
    /\ \A i \in 1..7 : StoredMood(call.entries.items[i]) = "happy"
    /\ \A i \in 8..14 : StoredMood(call.entries.items[i]) = "sad"
    /\ result.trend = "declining"

\* the position of the first record of items with the mood m
FirstSeen(items, m) ==
    CHOOSE i \in 1..Len(items) :
        /\ StoredMood(items[i]) = m
        /\ \A j \in 1..(i - 1) : StoredMood(items[j]) # m

\* C18: dominantMood is a mood with the maximum count over the full sequence,
\* and among the moods that share the maximum it is the one seen first.
C18_DominantIsFirstSeenMaximum ==
    Trended =>
        LET items == call.entries.items
            moodsSeen == {StoredMood(items[i]) : i \in 1..Len(items)}
            dominant == result.dominantMood
        IN  /\ dominant \in moodsSeen
            /\ \A m \in moodsSeen :
                  /\ NumberWithMoodIn(items, {m}) <= NumberWithMoodIn(items, {dominant})
                  /\ NumberWithMoodIn(items, {m}) = NumberWithMoodIn(items, {dominant})
                        => FirstSeen(items, dominant) <= FirstSeen(items, m)

\* every record of the history has the shape {mood: Mood, createdAt}
InterfaceShaped(items) ==
    \A i \in 1..Len(items) : items[i].props.mood.type = "string"

\* C19, as claimed: for a history of records {mood: Mood, createdAt},
\* moodDistribution maps each mood to the number of records carrying it.
C19_DistributionOfInterfaceRecords ==
    (Trended /\ InterfaceShaped(call.entries.items)) =>
        LET items == call.entries.items
        IN  \A i \in 1..Len(items) :
              CountOf(result.moodDistribution, items[i].props.mood.val) =
                  Cardinality({j \in 1..Len(items) :
                                 items[j].props.mood = items[i].props.mood})

\* C19, amended: moodDistribution maps each mood to the number of records
\* whose mood object carries it (detected, else manual, else neutral); it has
\* one key per mood seen, the counts sum to the length of the history, and a
\* record whose mood is a bare string is counted as neutral.
C19_DistributionOfStoredMoods ==
    Trended =>
        LET items == call.entries.items
            dist == result.moodDistribution
        IN  /\ \A k \in 1..Len(dist) :
                  /\ dist[k][2] = NumberWithMoodIn(items, {dist[k][1]})
                  /\ dist[k][2] > 0
                  /\ \A l \in 1..Len(dist) : dist[l][1] = dist[k][1] => l = k
            /\ \A i \in 1..Len(items) : CountOf(dist, StoredMood(items[i])) > 0
            /\ SumCounts(dist, 1) = Len(items)
            /\ InterfaceShaped(items) => dist = <<<<"neutral", Len(items)>>>>

\* a history of two moods, one of them carried by several records
C19_Witness ==
    /\ Trended
    /\ result.moodDistribution = <<<<"grateful", 3>>, <<"calm", 7>>>>

\* count * 100 / total rounded to the nearest whole number, halves upwards
IsRoundedPercent(p, count, total) ==
    (2 * p - 1) * total <= 200 * count /\ 200 * count < (2 * p + 1) * total

\* C20: for a history that is not empty the insights are, in this order: a
\* trend comment exactly when the trend is improving or declining; the
\* dominant-mood line with count/total rounded to the nearest percent; the
\* gratitude note exactly when a record is grateful; the anxiety warning
\* exactly when the anxious records are more than 30% of all.
C20_InsightsInOrder ==
    Trended =>
        LET items == call.entries.items
            total == Len(items)
            percent == CHOOSE p \in 0..100 :
                IsRoundedPercent(p, NumberWithMoodIn(items, {result.dominantMood}), total)
        IN  result.insights =
              (IF result.trend = "improving"
               THEN <<"Your mood has been improving recently. Keep up the positive momentum!">>
               ELSE IF result.trend = "declining"
               THEN <<"Your mood has been declining recently. Consider reaching out for support.">>
               ELSE <<>>)
              \o <<"Your most common mood is " \o result.dominantMood \o " ("
                     \o ToString(percent) \o "% of entries)">>
              \o (IF NumberWithMoodIn(items, {"grateful"}) >= 1
                  THEN <<"You frequently express gratitude, which is great for mental well-being!">>
                  ELSE <<>>)
              \o (IF 10 * NumberWithMoodIn(items, {"anxious"}) > 3 * total
                  THEN <<"You experience anxiety frequently. Consider stress management techniques.">>
                  ELSE <<>>)

\* 3 anxious records of 10, exactly 30%: no anxiety warning; and the dominant
\* mood line of 7 records of 10
C20_Witness ==
    /\ Trended /\ Len(call.entries.items) = 10
    /\ NumberWithMoodIn(call.entries.items, {"anxious"}) = 3
    /\ NumberWithMoodIn(call.entries.items, {"grateful"}) = 7
    /\ result.insights =
         <<"Your most common mood is grateful (70% of entries)",
           "You frequently express gratitude, which is great for mental well-being!">>

-----------------------------------------------------------------------------
(* Properties of the empty history and of the helpline lookup *)

\* C21: for an empty, null or undefined history analyzeMoodTrends returns
\* trend stable, dominantMood neutral, an empty moodDistribution and the one
\* insight 'No entries available for analysis', and raises nothing.
C21_NoEntriesSummary ==
    (/\ pc = "done" /\ call.fn = "analyzeMoodTrends"
     /\ call.entries \in {Null, Undefined, Arr(<<>>)}) =>
        /\ "threw" \notin DOMAIN result
        /\ result.trend = "stable"
        /\ result.dominantMood = "neutral"
        /\ result.moodDistribution = <<>>
        /\ result.insights = <<"No entries available for analysis">>

\* the call with the empty array has returned
C21_Witness ==
    /\ pc = "done" /\ call.fn = "analyzeMoodTrends"
    /\ call.entries = Arr(<<>>)
    /\ result.insights = <<"No entries available for analysis">>

\* C22: getHelplineInfo returns the record of the code for US, UK, CA, AU and
\* IN, and the US record for every other code string and for no code.
C22_HelplineRecordOrUS ==
    (pc = "done" /\ call.fn = "getHelplineInfo"
        /\ (call.country = Undefined \/ call.country.type = "string")) =>
        result = IF call.country = Undefined THEN helplineInfo["US"]
                 ELSE IF call.country.val \in {"US", "UK", "CA", "AU", "IN"}
                 THEN helplineInfo[call.country.val]
                 ELSE helplineInfo["US"]

\* the listed crisis phrases that occur in the normalized text
PhrasesIn(text) ==
    LET normalized == toLowerCase(cleanText(text))
    IN  {selfHarmPatterns[i] : i \in {j \in 1..Len(selfHarmPatterns) :
                                        includes(normalized, selfHarmPatterns[j])}}

\* C23: a result with selfHarmDetected = true embeds the matched crisis
\* phrases: a collection that is not empty, has no duplicates and is exactly
\* the listed crisis phrases that occur in the normalized text; neither
\* detectSelfHarm nor the critical-phrase check of the sentiment analyzer
\* flags a text for which it is empty.
C23_MatchedPhrasesEmbedded ==
    DetectedText =>
        LET clean == cleanText(call.text.val)
            keywords == result.analysis.keywords
        IN  /\ result.selfHarmDetected =>
                  /\ Len(keywords) > 0
                  /\ \A i, j \in 1..Len(keywords) : keywords[i] = keywords[j] => i = j
                  /\ Range(keywords) = PhrasesIn(call.text.val)
            /\ (detectSelfHarm(clean) \/ analyze(clean).crisisDetected) =>
                  (result.selfHarmDetected /\ PhrasesIn(call.text.val) # {})

\* a crisis text in which two listed phrases occur
C23_Witness ==
    /\ DetectedText /\ result.selfHarmDetected
    /\ analyze(cleanText(call.text.val)).crisisDetected
    /\ result.analysis.keywords = <<"suicide", "hopeless">>

-----------------------------------------------------------------------------
(* Properties of the interleaved updates *)

\* C28: when every create, entry-update and manual-mood update request has
\* completed, the detected and the manual mood stored in each JournalEntry
\* are the detectedMood and the manualMood of its Mood record.
C28_EntryAndMoodRecordAgree ==
    (\A s \in Slots : inflight[s] = Idle) =>
        \A i \in 1..Len(entries) : \A j \in MoodsOf(entries[i].id) :
            /\ entries[i].mood.detected = moods[j].detectedMood
            /\ entries[i].mood.manual = moods[j].manualMood

-----------------------------------------------------------------------------
(* Properties of the tokens of the auth routes *)

VerificationLifetime == 1440   \* 24 hours, in minutes

\* the tokens of kind generated so far
TokensOf(kind) == {i \in 1..Len(issued) : issued[i].kind = kind}

\* C24: a password-reset token leads to at most one successful reset: after
\* a reset succeeded with it every other reset presenting it, later or
\* concurrent, is rejected; and no reset succeeds with it once 10 minutes
\* have passed since it was issued, or after a newer token was issued.
C24_ResetTokenUsedOnce ==
    \A T \in TokensOf("reset") :
        /\ issued[T].uses <= 1
        /\ issued[T].uses > 0 =>
              /\ issued[T].usedAt < issued[T].at + ResetLifetime
              /\ \A newer \in TokensOf("reset") :
                    newer > T => issued[T].usedAt <= issued[newer].at

\* C25: an email-verification token is accepted only within 24 hours of
\* being issued: no verify-email request succeeds with it later than that.
C25_VerificationTokenExpires ==
    \A T \in TokensOf("verification") :
        issued[T].uses > 0 => issued[T].usedAt < issued[T].at + VerificationLifetime

-----------------------------------------------------------------------------
(* Properties of the journal routes *)

\* the last request stored its content: a create or an update that succeeded
ContentStored ==
    /\ request.route \in {"POST /entries", "PUT /entries/:id"}
    /\ response.status \in {200, 201}

\* the response carries a security alert with the helpline record
CarriesAlert ==
    /\ "data" \in DOMAIN response
    /\ "securityAlert" \in DOMAIN response.data
    /\ response.data.securityAlert # Null
    /\ response.data.securityAlert.helpline = helplineInfo["US"]

\* C3: whenever content is stored through the create or the update route and
\* its classification yields selfHarmDetected = true, the response carries a
\* security alert with the helpline record; otherwise it carries none.
C3_AlertOnStoredCrisisContent ==
    ContentStored =>
        (CarriesAlert <=> detectMood(request.content, Null).selfHarmDetected)

\* C26: after every successful create or update the stored entry holds its
\* content encrypted: the ciphertext in encryptedContent, the plaintext
\* content cleared; no stored entry holds its content in plaintext.
C26_StoredContentEncrypted ==
    \A i \in 1..Len(entries) :
        /\ entries[i].content = Str("")
        /\ "data" \in DOMAIN entries[i].encryptedContent

\* C27: after any sequence of create, update, delete and restore requests
\* every entry that is not deleted has exactly one Mood record and every
\* soft-deleted entry has none; a restored entry has its Mood record again.
C27_OneMoodPerLiveEntry ==
    \A i \in 1..Len(entries) :
        Cardinality(MoodsOf(entries[i].id)) = IF entries[i].isDeleted THEN 0 ELSE 1

-----------------------------------------------------------------------------
(* Properties of the streaks *)

\* C29: immediately after every successful creation of an entry the user's
\* stats.currentStreak is at least 1, whatever creations, deletions and
\* GET /api/user/stats recomputations came before.
C29_StreakAfterCreation ==
    (request.route = "POST /entries" /\ response.status = 201) =>
        user.stats.currentStreak >= 1

\* C30: stats.longestStreak is at least stats.currentStreak after every
\* updateStreak call and after every GET /api/user/stats recomputation.
C30_LongestAtLeastCurrent ==
    user.stats.longestStreak >= user.stats.currentStreak

\* the other half of C30: no step makes stats.longestStreak smaller
LongestStreakNeverDecreases ==
    [][user'.stats.longestStreak >= user.stats.longestStreak]_vars

====
